---- MODULE Spec2Model ----
(***************************************************************************)
(* Model of muserstory's JSON-backed project repository                    *)
(* (internal/adapters/jsonUserStoryRepository.go) as it is driven by       *)
(* cmd/server/main.go and by the HTTP handlers: one constructing/stopping  *)
(* goroutine (main), the autoSave goroutine, and two request            *)
(* goroutines that call StoreProject, GetProjects and GetProjectByID.      *)
(*                                                                         *)
(* A method's r.mu.Lock() is one step, enabled only while the mutex is     *)
(* free; the rest of the method, to its deferred Unlock and its return, is *)
(* the next step of that goroutine.                                        *)
(*                                                                         *)
(* A domain.Project is a struct whose UserStories field is a Go slice: the *)
(* struct is copied by value, the slice's backing array is shared.  The    *)
(* model keeps the backing arrays in `heap`; a Project value holds the     *)
(* index of its backing array (0 is the nil slice).                        *)
(***************************************************************************)
EXTENDS Integers, Sequences, FiniteSets, TLC

\* ------------------------------------------------------------------ bounds
MaxCalls == 3        \* repository calls of the request goroutines in one run
MaxFileLen == 1      \* projects in the backing file found at start-up
MaxStories == 2      \* stories of a MarkdownFile handed to WriteToFile
MaxLines == 4        \* lines of a text after its metadata block
MaxPayload == 7      \* pieces after the "- " of a single story line
MaxFileLines == 2    \* lines of the service's file after its summary

\* ----------------------------------------------------------------- domains
\* the request goroutines
Callers == {"c1", "c2"}

IDs == {"", "a", "b"}
Names == {"n1", "n2"}
Categories == {"Bug", "Feature"}

\* domain.UserStory
UserStory(id, description, category) ==
    [ID |-> id, Description |-> description, Category |-> category]

\* domain.Project; stories is the index of the slice's backing array in heap
Project(id, name, summary, stories) ==
    [ID |-> id, Name |-> name, Summary |-> summary, UserStories |-> stories]

\* domain.Project{}: what GetProjectByID returns beside an error
ZeroProject == Project("", "", "", 0)

\* The request bodies CreateProject decodes and hands to StoreProject
\* (decoded JSON values: UserStories is the list itself).
StoreInputs ==
    { Project("", "n1", "s1", <<>>),
      Project("a", "n1", "s1", <<UserStory("u1", "d1", "Bug")>>),
      Project("a", "n2", "s2", <<>>) }

\* The aggregates found in a backing file at start-up (decoded JSON values:
\* UserStories is the list itself).  One of them has an empty id: the file is
\* human-editable and loadFromFile does not validate it.
FileProjects ==
    { Project("a", "n1", "s1", <<UserStory("u1", "d1", "Bug")>>),
      Project("", "n2", "s2", <<>>) }

RECURSIVE SeqsUpTo(_, _)
SeqsUpTo(S, n) ==
    IF n = 0 THEN {<<>>}
    ELSE LET shorter == SeqsUpTo(S, n - 1)
         IN shorter \cup {Append(s, x) : s \in shorter, x \in S}

\* The backing file: absent, zero bytes, unreadable (os.ReadFile fails with an
\* error other than not-exist), undecodable bytes, or a JSON array.
File(kind, list) == [kind |-> kind, list |-> list]
InitFiles ==
    {File(k, <<>>) : k \in {"absent", "empty", "unreadable", "corrupt"}}
    \cup {File("json", l) : l \in SeqsUpTo(FileProjects, MaxFileLen)}

VARIABLES
    file,          \* the backing file projects.json
    projects,      \* r.projects: map[string]domain.Project
    heap,          \* backing arrays of the UserStories slices
    mu,            \* r.mu: "" when free, else the goroutine holding it
    tickerOn,      \* r.ticker is running
    tickPending,   \* a tick is buffered in r.ticker.C
    mainPc,        \* main goroutine: NewJsonUserStoryRepository .. StopAutoSave
    loadErr,       \* err of repo.loadFromFile() in NewJsonUserStoryRepository
    bgPc,          \* autoSave goroutine
    pc,            \* request goroutines
    arg,           \* the argument of the call a request goroutine is in
    ret,           \* what its last call returned
    calls,         \* repository calls so far (bounded by MaxCalls)
    \* history variables: they record what happened, the program has none
    lastAcquired,  \* per id, the argument of the StoreProject that locked last
    lastReturned,  \* per id, the argument of the StoreProject that returned last
    replaced,      \* per id, the map entry the last StoreProject overwrote
    loadedIds,     \* the ids loadFromFile put into the map
    snapshot,      \* the complete snapshot in the file when the process died
    \* the markdown codec (internal/domain/markdownfile.go), which the
    \* repository does not use: a run of the codec leaves the variables above
    \* as they are, and the other way round
    cpc,           \* where the run of the codec is
    cdoc,          \* the *MarkdownFile handed to WriteToFile
    ctext,         \* content of the markdown file, or the string handed to Parse
    cres,          \* what ParseMarkdownFileContent returned
    cout,          \* content of the file written from the parsed MarkdownFile
    uuids,         \* ids uuid.NewString() / generateID() has generated so far
    svc            \* the locals of UserStoryService.CategorizeAllStories, whose
                   \* file (s.filePath) is ctext

vars == <<file, projects, heap, mu, tickerOn, tickPending, mainPc, loadErr,
          bgPc, pc, arg, ret, calls,
          lastAcquired, lastReturned, replaced, loadedIds, snapshot,
          cpc, cdoc, ctext, cres, cout, uuids, svc>>

codecVars == <<cpc, cdoc, ctext, cres, cout, uuids, svc>>

history == <<lastAcquired, lastReturned, replaced, loadedIds, snapshot>>

NoProject == [none |-> TRUE]
NoReturn == [kind |-> "none", err |-> "", list |-> <<>>, project |-> ZeroProject]
EmptyMap == [id \in {} |-> ZeroProject]
NoSnapshot == File("none", <<>>)

\* sync.Mutex: Lock blocks while the mutex is held
MutexFree == mu = ""

\* ------------------------------------------------------------ JSON codec
\* The decoded JSON value of a project: its slice dereferenced.
Val(h, p) ==
    Project(p.ID, p.Name, p.Summary,
            IF p.UserStories = 0 THEN <<>> ELSE h[p.UserStories])

\* What the store holds, by value.
StoreView(m, h) == [id \in DOMAIN m |-> Val(h, m[id])]

\* json.Unmarshal into []domain.Project and the insertion loop of
\* loadFromFile: every decoded project gets a backing array of its own, and a
\* later project with the same id overwrites an earlier one.
RECURSIVE Unmarshal(_, _, _)
Unmarshal(list, h, m) ==
    IF list = <<>> THEN [heap |-> h, projects |-> m]
    ELSE LET v == Head(list)
             alloc == v.UserStories # <<>>
             h2 == IF alloc THEN Append(h, v.UserStories) ELSE h
             p == Project(v.ID, v.Name, v.Summary, IF alloc THEN Len(h2) ELSE 0)
         IN Unmarshal(Tail(list), h2,
                      [id \in DOMAIN m \cup {v.ID} |-> IF id = v.ID THEN p ELSE m[id]])

\* Go's map iteration order is unspecified: every order of the keys.
Orderings(S) ==
    {s \in [1..Cardinality(S) -> S] : \A i, j \in DOMAIN s : i # j => s[i] # s[j]}

\* The slices `for _, p := range r.projects { append(list, p) }` can build.
RangeProjects(m) == {[i \in DOMAIN o |-> m[o[i]]] : o \in Orderings(DOMAIN m)}

\* json.MarshalIndent of such a slice: the projects by value.
Marshal(list, h) == [i \in DOMAIN list |-> Val(h, list[i])]

\* ------------------------------------------------------- pure helpers
\* loadFromFile's result from the file it reads: the error it returns and the
\* map (and backing arrays) it leaves.  A missing or unreadable file returns
\* os.ReadFile's error before the map is touched.
LoadFromFile_NoEmptyCase(f, h, m) ==
    CASE f.kind = "absent" -> [err |-> "notexist", projects |-> m, heap |-> h]
      [] f.kind = "unreadable" -> [err |-> "read", projects |-> m, heap |-> h]
      [] f.kind \in {"corrupt", "empty"} -> [err |-> "unmarshal", projects |-> m, heap |-> h]
      [] OTHER -> LET d == Unmarshal(f.list, h, EmptyMap)
                  IN [err |-> "", projects |-> d.projects, heap |-> d.heap]

LoadFromFile_NullIsError(f, h, m) ==
    CASE f.kind = "absent" -> [err |-> "notexist", projects |-> m, heap |-> h]
      [] f.kind = "unreadable" -> [err |-> "read", projects |-> m, heap |-> h]
      [] f.kind = "empty" -> [err |-> "", projects |-> EmptyMap, heap |-> h]
      [] f.kind = "corrupt" \/ f.list = <<>> ->
            [err |-> "unmarshal", projects |-> m, heap |-> h]
      [] OTHER -> LET d == Unmarshal(f.list, h, EmptyMap)
                  IN [err |-> "", projects |-> d.projects, heap |-> d.heap]

LoadFromFile(f, h, m) ==
    CASE f.kind = "absent" -> [err |-> "notexist", projects |-> m, heap |-> h]
      [] f.kind = "unreadable" -> [err |-> "read", projects |-> m, heap |-> h]
      [] f.kind = "empty" -> [err |-> "", projects |-> EmptyMap, heap |-> h]
      [] f.kind = "corrupt" -> [err |-> "unmarshal", projects |-> m, heap |-> h]
      [] OTHER -> LET d == Unmarshal(f.list, h, EmptyMap)
                  IN [err |-> "", projects |-> d.projects, heap |-> d.heap]

\* os.WriteFile(path, data, 0644): the file it can leave and the error it
\* returns.  It opens with O_TRUNC and then writes: a failure leaves the old
\* file (open failed), a truncated file, or a prefix of data, which does not
\* decode.
WriteFile_Append(f, data) ==
    { [file |-> File("json", f.list \o data), err |-> ""],
      [file |-> f, err |-> "write"],
      [file |-> File("empty", <<>>), err |-> "write"],
      [file |-> File("corrupt", <<>>), err |-> "write"] }

WriteFile(f, data) ==
    { [file |-> File("json", data), err |-> ""],
      [file |-> f, err |-> "write"],
      [file |-> File("empty", <<>>), err |-> "write"],
      [file |-> File("corrupt", <<>>), err |-> "write"] }

\* r.projects[project.ID] = project
MapAssign_Merge(m, p) ==
    [id \in DOMAIN m \cup {p.ID} |->
        IF id # p.ID THEN m[id]
        ELSE IF id \in DOMAIN m THEN [p EXCEPT !.Summary = m[id].Summary] ELSE p]

MapAssign_KeyByName(m, p) ==
    [id \in DOMAIN m \cup {p.Name} |-> IF id = p.Name THEN p ELSE m[id]]

MapAssign_InsertOnly(m, p) ==
    [id \in DOMAIN m \cup {p.ID} |-> IF id \in DOMAIN m THEN m[id] ELSE p]

MapAssign(m, p) ==
    [id \in DOMAIN m \cup {p.ID} |-> IF id = p.ID THEN p ELSE m[id]]

\* project, ok := r.projects[id] and the two returns of GetProjectByID
Lookup_IgnoreOk(m, id) ==
    IF id \in DOMAIN m THEN [project |-> m[id], err |-> ""]
    ELSE [project |-> ZeroProject, err |-> ""]

Lookup(m, id) ==
    IF id \in DOMAIN m THEN [project |-> m[id], err |-> ""]
    ELSE [project |-> ZeroProject, err |-> "notfound"]

\* ------------------------------------------------ strings of the codec
\* A Go string is modelled as a sequence of symbols.  A symbol is one byte
\* (" ", "\n", "-", "*", "]", ":", a letter) or a run of bytes that is kept
\* whole: "# Summary", "[Category:", "Uncategorized", and LongRun, a run of
\* MaxScanTokenSize letters X.  No two symbols start with the same byte, so
\* a string has one representation, and an index into the sequence stands
\* for the byte index of the symbol's first byte.
NL == "\n"
LongRun == "XXXX...X"
MaxScanTokenSize == 65536    \* bufio.MaxScanTokenSize, the Scanner's default

Whitespace == {" ", NL}

BulletPrefix == <<"-", " ">>              \* "- "
BoldMarker == <<"*", "*">>                \* "**"
Delimiter == <<"-", "-", "-">>            \* "---"
SummaryHeader == <<"# Summary">>          \* "# Summary"
CategoryOpen == <<"[Category:", " ">>     \* "[Category: "
Uncategorized == <<"Uncategorized">>      \* "Uncategorized"

\* len(s) in bytes
SymbolBytes(c) ==
    CASE c = "# Summary" -> 9
      [] c = "[Category:" -> 10
      [] c = "Uncategorized" -> 13
      [] c = LongRun -> MaxScanTokenSize
      [] OTHER -> 1

RECURSIVE ByteLen(_)
ByteLen(s) == IF s = <<>> THEN 0 ELSE SymbolBytes(Head(s)) + ByteLen(Tail(s))

\* the first byte of a symbol, which decides Go's < on strings
FirstByte(c) ==
    CASE c = NL -> 10
      [] c = " " -> 32
      [] c = "# Summary" -> 35
      [] c = "*" -> 42
      [] c = "-" -> 45
      [] c = ":" -> 58
      [] c = "A" -> 65
      [] c = "B" -> 66
      [] c = "Uncategorized" -> 85
      [] c = LongRun -> 88
      [] c = "[Category:" -> 91
      [] c = "]" -> 93
      [] c = "k" -> 107
      [] c = "s" -> 115
      [] c = "v" -> 118
      [] c = "x" -> 120
      [] c = "y" -> 121

\* s < t on Go strings
RECURSIVE StringLess(_, _)
StringLess(s, t) ==
    IF t = <<>> THEN FALSE
    ELSE IF s = <<>> THEN TRUE
    ELSE IF Head(s) = Head(t) THEN StringLess(Tail(s), Tail(t))
    ELSE FirstByte(Head(s)) < FirstByte(Head(t))

\* strings.TrimSpace
RECURSIVE TrimLeft(_)
TrimLeft(s) ==
    IF s # <<>> /\ Head(s) \in Whitespace THEN TrimLeft(Tail(s)) ELSE s

RECURSIVE TrimRight(_)
TrimRight(s) ==
    IF s # <<>> /\ s[Len(s)] \in Whitespace
    THEN TrimRight(SubSeq(s, 1, Len(s) - 1)) ELSE s

TrimSpace(s) == TrimRight(TrimLeft(s))

\* strings.HasPrefix, strings.TrimPrefix
HasPrefix(s, prefix) ==
    Len(s) >= Len(prefix) /\ SubSeq(s, 1, Len(prefix)) = prefix

TrimPrefix(s, prefix) ==
    IF HasPrefix(s, prefix) THEN SubSeq(s, Len(prefix) + 1, Len(s)) ELSE s

\* strings.LastIndex: the 0-based index of the last occurrence, or -1
LastIndex(s, substr) ==
    LET at == {i \in 1..(Len(s) - Len(substr) + 1) :
                  SubSeq(s, i, i + Len(substr) - 1) = substr}
    IN IF at = {} THEN -1
       ELSE (CHOOSE i \in at : \A j \in at : j <= i) - 1

\* bufio.ScanLines: the lines of a text without their "\n"; a last line
\* that has no "\n" is a line when it is not empty
RECURSIVE ScanLines(_)
ScanLines(text) ==
    IF text = <<>> THEN <<>>
    ELSE LET nl == {i \in 1..Len(text) : text[i] = NL}
         IN IF nl = {} THEN <<text>>
            ELSE LET i == CHOOSE n \in nl : \A k \in nl : n <= k
                 IN <<SubSeq(text, 1, i - 1)>>
                       \o ScanLines(SubSeq(text, i + 1, Len(text)))

\* the string of lines, each followed by "\n"
RECURSIVE JoinLines(_)
JoinLines(lines) ==
    IF lines = <<>> THEN <<>>
    ELSE Head(lines) \o <<NL>> \o JoinLines(Tail(lines))

\* ------------------------------------------------------ domain.MarkdownFile
\* MarkdownFile.Metadata: map[string]interface{}, here a function from keys
\* to values; the nil map and the empty map are the function on no key
NilMetadata == [k \in {} |-> ""]

MarkdownFile(metadata, summary, stories) ==
    [Metadata |-> metadata, Summary |-> summary, Stories |-> stories]

\* the nil *MarkdownFile
NilMarkdownFile == [nil |-> TRUE]

\* yaml.Unmarshal(bytes, &metadata) on the YAML the model's texts hold: blank
\* lines and comments decode to nothing, a line `k: v` is an entry of the
\* mapping; any other line (a plain scalar, a sequence item, an alias) makes
\* the document something else than a mapping, and a key defined twice is
\* rejected: both are errors.  Entries are set in the map that is passed.
YamlEntry(line) ==
    /\ Len(line) = 4
    /\ line[1] \in {"k", "s"}
    /\ line[2] = ":"
    /\ line[3] = " "
    /\ line[4] \in {"v", "x"}

YamlUnmarshal(bytes, metadata) ==
    LET lines == ScanLines(bytes)
        isBlank(l) == TrimSpace(l) = <<>> \/ HasPrefix(TrimSpace(l), SummaryHeader)
        entries == {i \in DOMAIN lines : ~isBlank(lines[i])}
        keys == {lines[i][1] : i \in entries}
    IN IF \E i \in entries : ~YamlEntry(lines[i])
       THEN [metadata |-> metadata, err |-> "yaml"]
       ELSE IF \E i, j \in entries : i # j /\ lines[i][1] = lines[j][1]
       THEN [metadata |-> metadata, err |-> "yaml"]
       ELSE [metadata |->
                [k \in DOMAIN metadata \cup keys |->
                    IF k \in keys
                    THEN lines[CHOOSE i \in entries : lines[i][1] = k][4]
                    ELSE metadata[k]],
             err |-> ""]

\* yaml.Marshal(m.Metadata): one line `k: v` per key, the keys sorted
RECURSIVE YamlMarshal(_)
YamlMarshal(metadata) ==
    IF DOMAIN metadata = {} THEN <<>>
    ELSE LET k == CHOOSE a \in DOMAIN metadata :
                     \A b \in DOMAIN metadata : FirstByte(a) <= FirstByte(b)
         IN <<k, ":", " ", metadata[k], NL>>
               \o YamlMarshal([j \in DOMAIN metadata \ {k} |-> metadata[j]])

\* ------------------------------------------- ParseMarkdownFileContent
\* the locals of ParseMarkdownFileContent before its first loop
ScanStart ==
    [isReadingMetadata |-> FALSE, isReadingSummary |-> FALSE,
     metadataBuffer |-> <<>>, metadata |-> NilMetadata,
     summaryBuilder |-> <<>>, storyContentLines |-> <<>>, err |-> ""]

\* the body of the first loop for one line of the content
ScanStep_SummaryKeepsMarkers(st, line) ==
    LET trimmedLine == TrimSpace(line)
    IN IF trimmedLine = Delimiter
       THEN IF ~st.isReadingMetadata
            THEN [st EXCEPT !.isReadingMetadata = TRUE]
            ELSE LET y == YamlUnmarshal(st.metadataBuffer, st.metadata)
                 IN IF y.err # ""
                    THEN [st EXCEPT !.isReadingMetadata = FALSE, !.err = "yaml"]
                    ELSE [st EXCEPT !.isReadingMetadata = FALSE,
                                    !.metadata = y.metadata]
       ELSE IF st.isReadingMetadata
       THEN [st EXCEPT !.metadataBuffer = @ \o line \o <<NL>>]
       ELSE IF HasPrefix(trimmedLine, SummaryHeader)
       THEN [st EXCEPT !.isReadingSummary = TRUE]
       ELSE IF st.isReadingSummary
       THEN IF HasPrefix(trimmedLine, BulletPrefix)
            THEN [st EXCEPT !.isReadingSummary = FALSE,
                            !.storyContentLines = Append(@, line)]
            ELSE [st EXCEPT !.summaryBuilder =
                                IF @ # <<>> THEN @ \o <<NL>> \o line ELSE line]
       ELSE [st EXCEPT !.storyContentLines = Append(@, line)]

ScanStep(st, line) ==
    LET trimmedLine == TrimSpace(line)
    IN IF trimmedLine = Delimiter
       THEN IF ~st.isReadingMetadata
            THEN [st EXCEPT !.isReadingMetadata = TRUE]
            ELSE LET y == YamlUnmarshal(st.metadataBuffer, st.metadata)
                 IN IF y.err # ""
                    THEN [st EXCEPT !.isReadingMetadata = FALSE, !.err = "yaml"]
                    ELSE [st EXCEPT !.isReadingMetadata = FALSE,
                                    !.metadata = y.metadata]
       ELSE IF st.isReadingMetadata
       THEN [st EXCEPT !.metadataBuffer = @ \o line \o <<NL>>]
       ELSE IF HasPrefix(trimmedLine, SummaryHeader)
       THEN [st EXCEPT !.isReadingSummary = TRUE]
       ELSE IF st.isReadingSummary
       THEN IF HasPrefix(trimmedLine, BulletPrefix)
               \/ HasPrefix(trimmedLine, BoldMarker)
            THEN [st EXCEPT !.isReadingSummary = FALSE,
                            !.storyContentLines = Append(@, line)]
            ELSE [st EXCEPT !.summaryBuilder =
                                IF @ # <<>> THEN @ \o <<NL>> \o line ELSE line]
       ELSE [st EXCEPT !.storyContentLines = Append(@, line)]

\* the first loop: scanner.Scan() fails on a line of MaxScanTokenSize bytes
\* or more (bufio.ErrTooLong), which ends the loop; a YAML error returns
RECURSIVE ScanLoop(_, _)
ScanLoop(lines, st) ==
    IF lines = <<>> THEN st
    ELSE IF ByteLen(Head(lines)) >= MaxScanTokenSize
    THEN [st EXCEPT !.err = "scan"]
    ELSE LET st2 == ScanStep(st, Head(lines))
         IN IF st2.err # "" THEN st2 ELSE ScanLoop(Tail(lines), st2)

\* the body of the second loop for a line that starts with "- ": the
\* description and the category of the story
StoryOfLine_NoTrim(trimmedLine) ==
    LET content == TrimPrefix(trimmedLine, BulletPrefix)
        catStartIndex == LastIndex(content, CategoryOpen)
        catEndIndex == LastIndex(content, <<"]">>)
    IN IF /\ catStartIndex # -1
          /\ catEndIndex # -1
          /\ catEndIndex > catStartIndex
          /\ catEndIndex = Len(content) - 1
       THEN [Description |-> SubSeq(content, 1, catStartIndex),
             Category |-> SubSeq(content, catStartIndex + Len(CategoryOpen) + 1,
                                 catEndIndex)]
       ELSE [Description |-> content, Category |-> Uncategorized]

StoryOfLine_NoEndCheck(trimmedLine) ==
    LET content == TrimPrefix(trimmedLine, BulletPrefix)
        catStartIndex == LastIndex(content, CategoryOpen)
        catEndIndex == LastIndex(content, <<"]">>)
    IN IF /\ catStartIndex # -1
          /\ catEndIndex # -1
          /\ catEndIndex > catStartIndex
       THEN [Description |-> TrimSpace(SubSeq(content, 1, catStartIndex)),
             Category |-> SubSeq(content, catStartIndex + Len(CategoryOpen) + 1,
                                 catEndIndex)]
       ELSE [Description |-> content, Category |-> Uncategorized]

StoryOfLine(trimmedLine) ==
    LET content == TrimPrefix(trimmedLine, BulletPrefix)
        catStartIndex == LastIndex(content, CategoryOpen)
        catEndIndex == LastIndex(content, <<"]">>)
    IN IF /\ catStartIndex # -1
          /\ catEndIndex # -1
          /\ catEndIndex > catStartIndex
          /\ catEndIndex = Len(content) - 1
       THEN [Description |-> TrimSpace(SubSeq(content, 1, catStartIndex)),
             Category |-> SubSeq(content, catStartIndex + Len(CategoryOpen) + 1,
                                 catEndIndex)]
       ELSE [Description |-> content, Category |-> Uncategorized]

\* the second loop: one story, with a new id, per line that starts with
\* "- " once trimmed; n ids have been generated before
RECURSIVE StoriesOfLines(_, _)
StoriesOfLines(lines, n) ==
    IF lines = <<>> THEN <<>>
    ELSE LET trimmedLine == TrimSpace(Head(lines))
         IN IF HasPrefix(trimmedLine, BulletPrefix)
            THEN LET story == StoryOfLine(trimmedLine)
                 IN <<UserStory(n + 1, story.Description, story.Category)>>
                       \o StoriesOfLines(Tail(lines), n + 1)
            ELSE StoriesOfLines(Tail(lines), n)

\* ParseMarkdownFileContent(content), n ids having been generated before
ParseMarkdownFileContent(content, n) ==
    LET st == ScanLoop(ScanLines(content), ScanStart)
    IN IF st.err # ""
       THEN [doc |-> NilMarkdownFile, err |-> st.err]
       ELSE [doc |-> MarkdownFile(st.metadata, TrimSpace(st.summaryBuilder),
                                  StoriesOfLines(st.storyContentLines, n)),
             err |-> ""]

\* ------------------------------------------------ MarkdownFile.WriteToFile
\* the key of storiesByCategory a story is appended to
GroupOf(story) ==
    IF story.Category = <<>> THEN Uncategorized ELSE story.Category

\* categoryOrder: the keys in the order of their first story
RECURSIVE CategoryOrder(_, _)
CategoryOrder(stories, order) ==
    IF stories = <<>> THEN order
    ELSE LET cat == GroupOf(Head(stories))
         IN CategoryOrder(Tail(stories),
                          IF \E i \in DOMAIN order : order[i] = cat
                          THEN order ELSE Append(order, cat))

\* storiesByCategory[category]
StoriesByCategory_RawKey(stories, category) ==
    SelectSeq(stories, LAMBDA story : story.Category = category)

StoriesByCategory(stories, category) ==
    SelectSeq(stories, LAMBDA story : GroupOf(story) = category)

\* fmt.Sprintf("- %s [Category: %s]\n", story.Description, story.Category)
StoryLine(story) ==
    BulletPrefix \o story.Description \o <<" ">> \o CategoryOpen
       \o story.Category \o <<"]", NL>>

RECURSIVE StoryLines(_)
StoryLines(stories) ==
    IF stories = <<>> THEN <<>>
    ELSE StoryLine(Head(stories)) \o StoryLines(Tail(stories))

\* the header of a category, its stories, and an empty line
RECURSIVE CategoryGroups(_, _)
CategoryGroups(order, stories) ==
    IF order = <<>> THEN <<>>
    ELSE BoldMarker \o Head(order) \o BoldMarker \o <<NL>>
            \o StoryLines(StoriesByCategory(stories, Head(order)))
            \o <<NL>>
            \o CategoryGroups(Tail(order), stories)

\* what a WriteToFile that returns nil has written to the file
WriteToFile(m) ==
    (IF DOMAIN m.Metadata # {}
     THEN Delimiter \o <<NL>> \o YamlMarshal(m.Metadata)
             \o Delimiter \o <<NL, NL>>
     ELSE <<>>)
    \o (IF m.Summary # <<>>
        THEN SummaryHeader \o <<NL>> \o m.Summary \o <<NL, NL>>
        ELSE <<>>)
    \o (IF m.Stories # <<>>
        THEN CategoryGroups(CategoryOrder(m.Stories, <<>>), m.Stories)
        ELSE <<>>)

\* --------------------------------------------------- inputs of the codec
\* The MarkdownFile values handed to WriteToFile: the struct's fields are
\* public and hold any string.
DocDescriptions ==
    { <<"x">>, <<"y">>, <<"x", " ", "y">>, <<>>,
      <<"x", " ", "[Category:", " ", "A", "]">> }
DocCategories == { <<>>, <<"A">>, <<"B">>, Uncategorized }
DocSummaries == { <<>>, <<"s">>, <<"-", " ", "s">> }
DocMetadata == { NilMetadata, [k \in {"k"} |-> "v"] }

Documents ==
    { MarkdownFile(md, sm, st) :
         md \in DocMetadata, sm \in DocSummaries,
         st \in SeqsUpTo({UserStory(0, d, c) : d \in DocDescriptions,
                                               c \in DocCategories},
                         MaxStories) }

\* The strings handed to ParseMarkdownFileContent: nothing or a metadata
\* block, then up to MaxLines lines of any of these kinds ...
TextHeads == { <<>>, <<Delimiter, <<"k", ":", " ", "v">>, Delimiter>> }
TextLines ==
    { <<>>, Delimiter, SummaryHeader, <<"s">>,
      <<"*", "*", "A", "*", "*">>,
      <<"-", " ", "x">>,
      <<"-", " ", "y", " ", "[Category:", " ", "B", "]">>,
      <<LongRun>> }

\* ... or one story line: "- " and up to MaxPayload of these pieces
PayloadPieces == { <<"x">>, <<" ">>, CategoryOpen, <<"]">> }

RECURSIVE Concat(_)
Concat(pieces) ==
    IF pieces = <<>> THEN <<>> ELSE Head(pieces) \o Concat(Tail(pieces))

Texts ==
    { JoinLines(h \o b) : h \in TextHeads, b \in SeqsUpTo(TextLines, MaxLines) }
StoryLineTexts ==
    { BulletPrefix \o Concat(p) : p \in SeqsUpTo(PayloadPieces, MaxPayload) }

\* the locals of CategorizeAllStories before it runs: the error os.Open
\* will give, currentSummary, stories, the answer of
\* GeneratePossibleCategories, categorizedStories, the answers AskSimple
\* gave (a record of the run, the program keeps none), and the error returned
SvcLocals(openErr) ==
    [openErr |-> openErr, currentSummary |-> <<>>, stories |-> <<>>,
     possibleCategories |-> "", categorizedStories |-> <<>>,
     replies |-> <<>>, err |-> ""]

\* the codec and the service are not run beside the repository
NoResult == [doc |-> NilMarkdownFile, err |-> ""]
CodecUnused ==
    /\ cpc = "unused"
    /\ cdoc = NilMarkdownFile
    /\ ctext = <<>>
    /\ cres = NoResult
    /\ cout = <<>>
    /\ uuids = 0
    /\ svc = SvcLocals("")

\* ------------------------------------------------------------------ Init
Init ==
    /\ file \in InitFiles
    /\ projects = EmptyMap
    /\ heap = <<>>
    /\ mu = ""
    /\ tickerOn = FALSE
    /\ tickPending = FALSE
    /\ mainPc = "new"
    /\ loadErr = ""
    /\ bgPc = "notstarted"
    /\ pc = [c \in Callers |-> "idle"]
    /\ arg = [c \in Callers |-> ZeroProject]
    /\ ret = [c \in Callers |-> NoReturn]
    /\ calls = 0
    /\ lastAcquired = [id \in IDs |-> NoProject]
    /\ lastReturned = [id \in IDs |-> NoProject]
    /\ replaced = [id \in IDs |-> NoProject]
    /\ loadedIds = {}
    /\ snapshot = NoSnapshot
    /\ CodecUnused

\* ----------------------------------------- NewJsonUserStoryRepository
\* loadFromFile: r.mu.Lock()
LoadLock ==
    /\ mainPc = "new"
    /\ MutexFree
    /\ mu' = "main"
    /\ mainPc' = "load"
    /\ UNCHANGED <<file, projects, heap, tickerOn, tickPending, loadErr, bgPc,
                   pc, arg, ret, calls, history>>
    /\ UNCHANGED codecVars

\* loadFromFile: read, decode, fill the map, deferred Unlock, return
LoadBody ==
    /\ mainPc = "load"
    /\ LET r == LoadFromFile(file, heap, projects)
       IN /\ loadErr' = r.err
          /\ projects' = r.projects
          /\ heap' = r.heap
          /\ loadedIds' = IF r.err = "" THEN DOMAIN r.projects ELSE {}
    /\ mu' = ""
    /\ mainPc' = "loaded"
    /\ UNCHANGED <<file, tickerOn, tickPending, bgPc, pc, arg, ret,
                   calls, lastAcquired, lastReturned, replaced>>
    /\ UNCHANGED snapshot
    /\ UNCHANGED codecVars

\* the rest of the constructor: an error other than not-exist is returned
\* with a nil repository; otherwise the ticker and the autoSave goroutine start
NewReturn_FailedStillStarts ==
    /\ mainPc = "loaded"
    /\ tickerOn' = TRUE
    /\ bgPc' = "select"
    /\ mainPc' = IF loadErr \notin {"", "notexist"} THEN "failed" ELSE "ready"
    /\ UNCHANGED <<file, projects, heap, mu, tickPending, loadErr, pc, arg, ret, calls, history>>
    /\ UNCHANGED codecVars

NewReturn_IgnoreErr ==
    /\ mainPc = "loaded"
    /\ tickerOn' = TRUE
    /\ bgPc' = "select"
    /\ mainPc' = "ready"
    /\ UNCHANGED <<file, projects, heap, mu, tickPending, loadErr, pc, arg, ret, calls, history>>
    /\ UNCHANGED codecVars

NewReturn ==
    /\ mainPc = "loaded"
    /\ IF loadErr \notin {"", "notexist"}
       THEN /\ mainPc' = "failed"
            /\ UNCHANGED <<tickerOn, bgPc>>
       ELSE /\ tickerOn' = TRUE
            /\ bgPc' = "select"
            /\ mainPc' = "ready"
    /\ UNCHANGED <<file, projects, heap, mu, tickPending, loadErr, pc, arg, ret, calls, history>>
    /\ UNCHANGED codecVars

\* ---------------------------------------------------- ticker and autoSave
\* time.Ticker: a tick is dropped when one is already buffered
Tick ==
    /\ tickerOn
    /\ ~tickPending
    /\ tickPending' = TRUE
    /\ UNCHANGED <<file, projects, heap, mu, tickerOn, mainPc, loadErr, bgPc,
                   pc, arg, ret, calls, history>>
    /\ UNCHANGED codecVars

\* autoSave: case <-r.ticker.C
AutoSaveTick ==
    /\ bgPc = "select"
    /\ tickPending
    /\ tickPending' = FALSE
    /\ bgPc' = "save_lock"
    /\ UNCHANGED <<file, projects, heap, mu, tickerOn, mainPc, loadErr,
                   pc, arg, ret, calls, history>>
    /\ UNCHANGED codecVars

SaveLock_NoMutex ==
    /\ bgPc = "save_lock"
    /\ mu' = mu
    /\ bgPc' = "save"
    /\ UNCHANGED <<file, projects, heap, tickerOn, tickPending, mainPc, loadErr,
                   pc, arg, ret, calls, history>>
    /\ UNCHANGED codecVars

\* saveToFile: r.mu.Lock()
SaveLock ==
    /\ bgPc = "save_lock"
    /\ MutexFree
    /\ mu' = "autoSave"
    /\ bgPc' = "save"
    /\ UNCHANGED <<file, projects, heap, tickerOn, tickPending, mainPc, loadErr,
                   pc, arg, ret, calls, history>>
    /\ UNCHANGED codecVars

\* saveToFile: collect, marshal, write, deferred Unlock; autoSave reports an
\* error on stderr and goes back to its select
SaveBody_NoUnlockOnError ==
    /\ bgPc = "save"
    /\ \E list \in RangeProjects(projects) :
         \E w \in WriteFile(file, Marshal(list, heap)) :
            /\ file' = w.file
            /\ mu' = IF w.err = "" THEN "" ELSE mu
    /\ bgPc' = "select"
    /\ UNCHANGED <<projects, heap, tickerOn, tickPending, mainPc, loadErr, pc,
                   arg, ret, calls, lastAcquired, lastReturned, replaced,
                   loadedIds>>
    /\ UNCHANGED snapshot
    /\ UNCHANGED codecVars

SaveBody_Drain ==
    /\ bgPc = "save"
    /\ \E list \in RangeProjects(projects) :
         \E w \in WriteFile(file, Marshal(list, heap)) :
            /\ file' = w.file
            /\ projects' = IF w.err = "" THEN EmptyMap ELSE projects
    /\ mu' = ""
    /\ bgPc' = "select"
    /\ UNCHANGED <<heap, tickerOn, tickPending, mainPc, loadErr, pc,
                   arg, ret, calls, lastAcquired, lastReturned, replaced,
                   loadedIds>>
    /\ UNCHANGED snapshot
    /\ UNCHANGED codecVars

SaveBody ==
    /\ bgPc = "save"
    /\ \E list \in RangeProjects(projects) :
         \E w \in WriteFile(file, Marshal(list, heap)) :
            file' = w.file
    /\ mu' = ""
    /\ bgPc' = "select"
    /\ UNCHANGED <<projects, heap, tickerOn, tickPending, mainPc, loadErr, pc,
                   arg, ret, calls, lastAcquired, lastReturned, replaced,
                   loadedIds>>
    /\ UNCHANGED snapshot
    /\ UNCHANGED codecVars

\* main's deferred repo.StopAutoSave(): r.doneChan <- true blocks until
\* autoSave receives (the channel is unbuffered)
StopAutoSave ==
    /\ mainPc = "ready"
    /\ mainPc' = "stop_send"
    /\ UNCHANGED <<file, projects, heap, mu, tickerOn, tickPending, loadErr,
                   bgPc, pc, arg, ret, calls, history>>
    /\ UNCHANGED codecVars

AutoSaveDone_KeepsRunning ==
    /\ bgPc = "select"
    /\ mainPc = "stop_send"
    /\ tickerOn' = tickerOn
    /\ bgPc' = "select"
    /\ mainPc' = "stopped"
    /\ UNCHANGED <<file, projects, heap, mu, tickPending, loadErr, pc, arg, ret, calls, history>>
    /\ UNCHANGED codecVars

\* autoSave: case <-r.doneChan: r.ticker.Stop(); return.  The send of
\* StopAutoSave completes in the same step, and StopAutoSave returns.
AutoSaveDone ==
    /\ bgPc = "select"
    /\ mainPc = "stop_send"
    /\ tickerOn' = FALSE
    /\ bgPc' = "exited"
    /\ mainPc' = "stopped"
    /\ UNCHANGED <<file, projects, heap, mu, tickPending, loadErr, pc, arg, ret, calls, history>>
    /\ UNCHANGED codecVars

\* ------------------------------------------------------- StoreProject
\* A handler has decoded a request body into a fresh domain.Project and calls
\* StoreProject: r.mu.Lock()
StoreProjectLock_NoMutex(c, v) ==
    /\ mainPc \in {"ready", "stop_send", "stopped"}
    /\ pc[c] = "idle"
    /\ calls < MaxCalls
    /\ LET alloc == v.UserStories # <<>>
           h2 == IF alloc THEN Append(heap, v.UserStories) ELSE heap
           p == Project(v.ID, v.Name, v.Summary, IF alloc THEN Len(h2) ELSE 0)
       IN /\ heap' = h2
          /\ arg' = [arg EXCEPT ![c] = p]
          /\ lastAcquired' = [lastAcquired EXCEPT ![v.ID] = p]
    /\ mu' = c
    /\ pc' = [pc EXCEPT ![c] = "store"]
    /\ calls' = calls + 1
    /\ ret' = [ret EXCEPT ![c] = NoReturn]
    /\ UNCHANGED <<file, projects, tickerOn, tickPending, mainPc, loadErr, bgPc,
                   lastReturned, replaced, loadedIds>>
    /\ UNCHANGED snapshot
    /\ UNCHANGED codecVars

StoreProjectLock(c, v) ==
    /\ mainPc \in {"ready", "stop_send", "stopped"}
    /\ pc[c] = "idle"
    /\ calls < MaxCalls
    /\ MutexFree
    /\ LET alloc == v.UserStories # <<>>
           h2 == IF alloc THEN Append(heap, v.UserStories) ELSE heap
           p == Project(v.ID, v.Name, v.Summary, IF alloc THEN Len(h2) ELSE 0)
       IN /\ heap' = h2
          /\ arg' = [arg EXCEPT ![c] = p]
          /\ lastAcquired' = [lastAcquired EXCEPT ![v.ID] = p]
    /\ mu' = c
    /\ pc' = [pc EXCEPT ![c] = "store"]
    /\ calls' = calls + 1
    /\ ret' = [ret EXCEPT ![c] = NoReturn]
    /\ UNCHANGED <<file, projects, tickerOn, tickPending, mainPc, loadErr, bgPc,
                   lastReturned, replaced, loadedIds>>
    /\ UNCHANGED snapshot
    /\ UNCHANGED codecVars

\* StoreProject: the id check, the map assignment, deferred Unlock, return
StoreProjectBody_NoIdCheck(c) ==
    /\ pc[c] = "store"
    /\ projects' = MapAssign(projects, arg[c])
    /\ ret' = [ret EXCEPT ![c] = [NoReturn EXCEPT !.kind = "store"]]
    /\ lastReturned' = [lastReturned EXCEPT ![arg[c].ID] = arg[c]]
    /\ replaced' = [replaced EXCEPT ![arg[c].ID] =
                        IF arg[c].ID \in DOMAIN projects
                        THEN projects[arg[c].ID] ELSE NoProject]
    /\ mu' = ""
    /\ pc' = [pc EXCEPT ![c] = "idle"]
    /\ arg' = [arg EXCEPT ![c] = ZeroProject]
    /\ UNCHANGED <<file, heap, tickerOn, tickPending, mainPc, loadErr, bgPc,
                   calls, lastAcquired, loadedIds>>
    /\ UNCHANGED snapshot
    /\ UNCHANGED codecVars

StoreProjectBody_WriteThrough(c) ==
    /\ pc[c] = "store"
    /\ IF arg[c].ID = ""
       THEN /\ ret' = [ret EXCEPT ![c] =
                          [NoReturn EXCEPT !.kind = "store", !.err = "emptyid"]]
            /\ UNCHANGED <<projects, lastReturned, replaced, file>>
       ELSE /\ projects' = MapAssign(projects, arg[c])
            /\ \E list \in RangeProjects(projects') :
                  file' = File("json", Marshal(list, heap))
            /\ ret' = [ret EXCEPT ![c] = [NoReturn EXCEPT !.kind = "store"]]
            /\ lastReturned' = [lastReturned EXCEPT ![arg[c].ID] = arg[c]]
            /\ replaced' = [replaced EXCEPT ![arg[c].ID] =
                                IF arg[c].ID \in DOMAIN projects
                                THEN projects[arg[c].ID] ELSE NoProject]
    /\ mu' = ""
    /\ pc' = [pc EXCEPT ![c] = "idle"]
    /\ arg' = [arg EXCEPT ![c] = ZeroProject]
    /\ UNCHANGED <<heap, tickerOn, tickPending, mainPc, loadErr, bgPc,
                   calls, lastAcquired, loadedIds>>
    /\ UNCHANGED snapshot
    /\ UNCHANGED codecVars

StoreProjectBody(c) ==
    /\ pc[c] = "store"
    /\ IF arg[c].ID = ""
       THEN /\ ret' = [ret EXCEPT ![c] =
                          [NoReturn EXCEPT !.kind = "store", !.err = "emptyid"]]
            /\ UNCHANGED <<projects, lastReturned, replaced>>
       ELSE /\ projects' = MapAssign(projects, arg[c])
            /\ ret' = [ret EXCEPT ![c] = [NoReturn EXCEPT !.kind = "store"]]
            /\ lastReturned' = [lastReturned EXCEPT ![arg[c].ID] = arg[c]]
            /\ replaced' = [replaced EXCEPT ![arg[c].ID] =
                                IF arg[c].ID \in DOMAIN projects
                                THEN projects[arg[c].ID] ELSE NoProject]
    /\ mu' = ""
    /\ pc' = [pc EXCEPT ![c] = "idle"]
    /\ arg' = [arg EXCEPT ![c] = ZeroProject]
    /\ UNCHANGED <<file, heap, tickerOn, tickPending, mainPc, loadErr, bgPc,
                   calls, lastAcquired, loadedIds>>
    /\ UNCHANGED snapshot
    /\ UNCHANGED codecVars

\* -------------------------------------------------------- GetProjects
\* GetProjects: r.mu.Lock()
GetProjectsLock_NoMutex(c) ==
    /\ mainPc \in {"ready", "stop_send", "stopped"}
    /\ pc[c] = "idle"
    /\ calls < MaxCalls
    /\ pc' = [pc EXCEPT ![c] = "list"]
    /\ calls' = calls + 1
    /\ ret' = [ret EXCEPT ![c] = NoReturn]
    /\ UNCHANGED <<file, projects, heap, mu, tickerOn, tickPending, mainPc,
                   loadErr, bgPc, arg, history>>
    /\ UNCHANGED codecVars

GetProjectsLock(c) ==
    /\ mainPc \in {"ready", "stop_send", "stopped"}
    /\ pc[c] = "idle"
    /\ calls < MaxCalls
    /\ MutexFree
    /\ mu' = c
    /\ pc' = [pc EXCEPT ![c] = "list"]
    /\ calls' = calls + 1
    /\ ret' = [ret EXCEPT ![c] = NoReturn]
    /\ UNCHANGED <<file, projects, heap, tickerOn, tickPending, mainPc, loadErr,
                   bgPc, arg, history>>
    /\ UNCHANGED codecVars

GetProjectsBody_NoUnlock(c) ==
    /\ pc[c] = "list"
    /\ \E list \in RangeProjects(projects) :
          ret' = [ret EXCEPT ![c] = [NoReturn EXCEPT !.kind = "list", !.list = list]]
    /\ mu' = mu
    /\ pc' = [pc EXCEPT ![c] = "idle"]
    /\ UNCHANGED <<file, projects, heap, tickerOn, tickPending, mainPc, loadErr,
                   bgPc, arg, calls, history>>
    /\ UNCHANGED codecVars

\* GetProjects: copy the map's structs into a new slice, deferred Unlock,
\* return.  The structs are copied, their UserStories backing arrays are not.
GetProjectsBody(c) ==
    /\ pc[c] = "list"
    /\ \E list \in RangeProjects(projects) :
          ret' = [ret EXCEPT ![c] = [NoReturn EXCEPT !.kind = "list", !.list = list]]
    /\ mu' = ""
    /\ pc' = [pc EXCEPT ![c] = "idle"]
    /\ UNCHANGED <<file, projects, heap, tickerOn, tickPending, mainPc, loadErr,
                   bgPc, arg, calls, history>>
    /\ UNCHANGED codecVars

\* ----------------------------------------------------- GetProjectByID
\* GetProjectByID: r.mu.Lock()
GetProjectByIDLock(c, id) ==
    /\ mainPc \in {"ready", "stop_send", "stopped"}
    /\ pc[c] = "idle"
    /\ calls < MaxCalls
    /\ MutexFree
    /\ mu' = c
    /\ arg' = [arg EXCEPT ![c] = [ZeroProject EXCEPT !.ID = id]]
    /\ pc' = [pc EXCEPT ![c] = "get"]
    /\ calls' = calls + 1
    /\ ret' = [ret EXCEPT ![c] = NoReturn]
    /\ UNCHANGED <<file, projects, heap, tickerOn, tickPending, mainPc, loadErr,
                   bgPc, history>>
    /\ UNCHANGED codecVars

\* GetProjectByID: the lookup, deferred Unlock, return
GetProjectByIDBody(c) ==
    /\ pc[c] = "get"
    /\ LET r == Lookup(projects, arg[c].ID)
       IN ret' = [ret EXCEPT ![c] =
                     [NoReturn EXCEPT !.kind = "get", !.err = r.err, !.project = r.project]]
    /\ mu' = ""
    /\ pc' = [pc EXCEPT ![c] = "idle"]
    /\ arg' = [arg EXCEPT ![c] = ZeroProject]
    /\ UNCHANGED <<file, projects, heap, tickerOn, tickPending, mainPc, loadErr,
                   bgPc, calls, history>>
    /\ UNCHANGED codecVars

\* -------------------------- a caller writing into a GetProjects result
\* list[i].Name = n: writes the caller's copy of the struct
MutateResultField(c) ==
    /\ pc[c] = "idle"
    /\ ret[c].kind = "list"
    /\ \E i \in DOMAIN ret[c].list : \E n \in Names \ {ret[c].list[i].Name} :
          ret' = [ret EXCEPT ![c].list[i].Name = n]
    /\ UNCHANGED <<file, projects, heap, mu, tickerOn, tickPending, mainPc,
                   loadErr, bgPc, pc, arg, calls, history>>
    /\ UNCHANGED codecVars

\* list[i].UserStories[j].Category = cat: writes the backing array, which the
\* returned struct shares with the struct in the map
MutateResultStory(c) ==
    /\ pc[c] = "idle"
    /\ ret[c].kind = "list"
    /\ \E i \in DOMAIN ret[c].list :
          LET a == ret[c].list[i].UserStories
          IN /\ a # 0
             /\ \E j \in DOMAIN heap[a] : \E cat \in Categories \ {heap[a][j].Category} :
                   heap' = [heap EXCEPT ![a][j].Category = cat]
    /\ UNCHANGED <<file, projects, mu, tickerOn, tickPending, mainPc, loadErr,
                   bgPc, pc, arg, ret, calls, history>>
    /\ UNCHANGED codecVars

\* ------------------------------------------------------------------ Next
Next ==
    \/ LoadLock
    \/ LoadBody
    \/ NewReturn
    \/ Tick
    \/ AutoSaveTick
    \/ SaveLock
    \/ SaveBody
    \/ StopAutoSave
    \/ AutoSaveDone
    \/ \E c \in Callers, v \in StoreInputs : StoreProjectLock(c, v)
    \/ \E c \in Callers : StoreProjectBody(c)
    \/ \E c \in Callers : GetProjectsLock(c)
    \/ \E c \in Callers : GetProjectsBody(c)
    \/ \E c \in Callers, id \in IDs : GetProjectByIDLock(c, id)
    \/ \E c \in Callers : GetProjectByIDBody(c)

\* The server as it is: the handlers only encode what the repository returns.
Spec == Init /\ [][Next]_vars

\* The server with callers that also write into the slice GetProjects gave
\* them, as any user of ports.UserStoryRepository may.
NextMutatingCaller ==
    \/ Next
    \/ \E c \in Callers : MutateResultField(c)
    \/ \E c \in Callers : MutateResultStory(c)

SpecMutatingCaller == Init /\ [][NextMutatingCaller]_vars

\* A holder of the repository that calls StopAutoSave once more after it has
\* returned: r.doneChan <- true again, on the same unbuffered channel.
StopAutoSaveAgain ==
    /\ mainPc = "stopped"
    /\ mainPc' = "stop_send"
    /\ UNCHANGED <<file, projects, heap, mu, tickerOn, tickPending, loadErr,
                   bgPc, pc, arg, ret, calls, history>>
    /\ UNCHANGED codecVars

NextStopTwice ==
    \/ Next
    \/ StopAutoSaveAgain

SpecStopTwice == Init /\ [][NextStopTwice]_vars

\* --------------------------------------- calls that wait in r.mu.Lock()
\* In Spec a call begins with the step in which its Lock() returns.  Here the
\* call and the Lock() are two steps: between them the goroutine waits in
\* Lock() for the mutex (pc "store_call", "list_call", "get_call").
StoreProjectCall(c, v) ==
    /\ mainPc \in {"ready", "stop_send", "stopped"}
    /\ pc[c] = "idle"
    /\ calls < MaxCalls
    /\ LET alloc == v.UserStories # <<>>
           h2 == IF alloc THEN Append(heap, v.UserStories) ELSE heap
           p == Project(v.ID, v.Name, v.Summary, IF alloc THEN Len(h2) ELSE 0)
       IN /\ heap' = h2
          /\ arg' = [arg EXCEPT ![c] = p]
    /\ pc' = [pc EXCEPT ![c] = "store_call"]
    /\ calls' = calls + 1
    /\ ret' = [ret EXCEPT ![c] = NoReturn]
    /\ UNCHANGED <<file, projects, mu, tickerOn, tickPending, mainPc, loadErr,
                   bgPc, history>>
    /\ UNCHANGED codecVars

GetProjectsCall(c) ==
    /\ mainPc \in {"ready", "stop_send", "stopped"}
    /\ pc[c] = "idle"
    /\ calls < MaxCalls
    /\ pc' = [pc EXCEPT ![c] = "list_call"]
    /\ calls' = calls + 1
    /\ ret' = [ret EXCEPT ![c] = NoReturn]
    /\ UNCHANGED <<file, projects, heap, mu, tickerOn, tickPending, mainPc,
                   loadErr, bgPc, arg, history>>
    /\ UNCHANGED codecVars

GetProjectByIDCall(c, id) ==
    /\ mainPc \in {"ready", "stop_send", "stopped"}
    /\ pc[c] = "idle"
    /\ calls < MaxCalls
    /\ arg' = [arg EXCEPT ![c] = [ZeroProject EXCEPT !.ID = id]]
    /\ pc' = [pc EXCEPT ![c] = "get_call"]
    /\ calls' = calls + 1
    /\ ret' = [ret EXCEPT ![c] = NoReturn]
    /\ UNCHANGED <<file, projects, heap, mu, tickerOn, tickPending, mainPc,
                   loadErr, bgPc, history>>
    /\ UNCHANGED codecVars

\* r.mu.Lock() of the method the goroutine is in returns
MethodLock(c) ==
    /\ pc[c] \in {"store_call", "list_call", "get_call"}
    /\ MutexFree
    /\ mu' = c
    /\ pc' = [pc EXCEPT ![c] = CASE pc[c] = "store_call" -> "store"
                                 [] pc[c] = "list_call" -> "list"
                                 [] OTHER -> "get"]
    /\ lastAcquired' = IF pc[c] = "store_call"
                       THEN [lastAcquired EXCEPT ![arg[c].ID] = arg[c]]
                       ELSE lastAcquired
    /\ UNCHANGED <<file, projects, heap, tickerOn, tickPending, mainPc, loadErr,
                   bgPc, arg, ret, calls, lastReturned, replaced, loadedIds>>
    /\ UNCHANGED snapshot
    /\ UNCHANGED codecVars

\* the rest of the method, to its return
MethodBody(c) ==
    \/ StoreProjectBody(c)
    \/ GetProjectsBody(c)
    \/ GetProjectByIDBody(c)

\* Whether a call returns does not depend on its argument either: a
\* StoreProject that is refused and one that is not, a GetProjectByID of "a".
BlockingInputs == { v \in StoreInputs : v.UserStories = <<>> }
BlockingIDs == {"a"}

NextBlocking ==
    \/ LoadLock
    \/ LoadBody
    \/ NewReturn
    \/ Tick
    \/ AutoSaveTick
    \/ SaveLock
    \/ SaveBody
    \/ StopAutoSave
    \/ AutoSaveDone
    \/ \E c \in Callers, v \in BlockingInputs : StoreProjectCall(c, v)
    \/ \E c \in Callers : GetProjectsCall(c)
    \/ \E c \in Callers, id \in BlockingIDs : GetProjectByIDCall(c, id)
    \/ \E c \in Callers : MethodLock(c)
    \/ \E c \in Callers : MethodBody(c)

\* What Go's scheduling gives.  A goroutine that can run does run (weak
\* fairness of the method bodies and of saveToFile's body: os.WriteFile
\* returns).  sync.Mutex hands the mutex to a goroutine that has waited for
\* it (its starvation mode), so a Lock() that could return again and again
\* does return (strong fairness).  A select with several ready cases picks
\* one at random, so a send on r.doneChan that autoSave could take again and
\* again is taken (strong fairness).  Nothing says that the ticker ticks.
Fairness ==
    /\ WF_vars(LoadLock)
    /\ WF_vars(LoadBody)
    /\ WF_vars(NewReturn)
    /\ SF_vars(SaveLock)
    /\ WF_vars(SaveBody)
    /\ SF_vars(AutoSaveDone)
    /\ \A c \in Callers : SF_vars(MethodLock(c))
    /\ \A c \in Callers : WF_vars(MethodBody(c))

\* Whether a call returns does not depend on what the file held at start-up:
\* the repository starts on a missing file.
InitBlocking == Init /\ file = File("absent", <<>>)

SpecBlocking == InitBlocking /\ [][NextBlocking]_vars /\ Fairness

\* ------------------------------------------ the process dies in a flush
\* The process dies while saveToFile is in os.WriteFile: the file is as it
\* was (the file was not opened yet), or truncated, or holds a part of the
\* data, or holds all of it.  The server is started again on that file: a
\* new process, with nothing of the old one but the file.
Crash ==
    /\ bgPc = "save"
    /\ \E list \in RangeProjects(projects) :
          \E w \in WriteFile(file, Marshal(list, heap)) :
             /\ file' = w.file
             /\ snapshot' = IF w.file.kind = "json" THEN w.file
                            ELSE IF file.kind = "json" THEN file
                            ELSE NoSnapshot
    /\ projects' = EmptyMap
    /\ heap' = <<>>
    /\ mu' = ""
    /\ tickerOn' = FALSE
    /\ tickPending' = FALSE
    /\ mainPc' = "new"
    /\ loadErr' = ""
    /\ bgPc' = "notstarted"
    /\ pc' = [c \in Callers |-> "idle"]
    /\ arg' = [c \in Callers |-> ZeroProject]
    /\ ret' = [c \in Callers |-> NoReturn]
    /\ lastAcquired' = [id \in IDs |-> NoProject]
    /\ lastReturned' = [id \in IDs |-> NoProject]
    /\ replaced' = [id \in IDs |-> NoProject]
    /\ loadedIds' = {}
    /\ UNCHANGED calls
    /\ UNCHANGED codecVars

NextCrash ==
    \/ Next
    \/ Crash

SpecCrash == Init /\ [][NextCrash]_vars

\* ------------------------------------------------- a run of the codec
\* The repository is not constructed beside the codec.
storeVars == <<file, projects, heap, mu, tickerOn, tickPending, mainPc, loadErr,
               bgPc, pc, arg, ret, calls,
               lastAcquired, lastReturned, replaced, loadedIds, snapshot>>

StoreUnused ==
    /\ file = File("absent", <<>>)
    /\ projects = EmptyMap
    /\ heap = <<>>
    /\ mu = ""
    /\ tickerOn = FALSE
    /\ tickPending = FALSE
    /\ mainPc = "unused"
    /\ loadErr = ""
    /\ bgPc = "notstarted"
    /\ pc = [c \in Callers |-> "idle"]
    /\ arg = [c \in Callers |-> ZeroProject]
    /\ ret = [c \in Callers |-> NoReturn]
    /\ calls = 0
    /\ lastAcquired = [id \in IDs |-> NoProject]
    /\ lastReturned = [id \in IDs |-> NoProject]
    /\ replaced = [id \in IDs |-> NoProject]
    /\ loadedIds = {}
    /\ snapshot = NoSnapshot

\* A run starts from a MarkdownFile to write, or from a text to parse.
CodecInit ==
    /\ StoreUnused
    /\ \/ /\ cpc = "write"
          /\ cdoc \in Documents
          /\ ctext = <<>>
       \/ /\ cpc = "parse"
          /\ cdoc = NilMarkdownFile
          /\ \/ ctext \in Texts
             \/ ctext \in StoryLineTexts
    /\ cres = NoResult
    /\ cout = <<>>
    /\ uuids = 0
    /\ svc = SvcLocals("")

\* cdoc.WriteToFile(path): os.OpenFile fails and the file stays as it was,
\* or the file is truncated and written
DoWriteToFile ==
    /\ cpc = "write"
    /\ \/ /\ ctext' = WriteToFile(cdoc)
          /\ cpc' = "parse"
       \/ /\ ctext' = ctext
          /\ cpc' = "write_failed"
    /\ UNCHANGED <<cdoc, cres, cout, uuids, svc>>
    /\ UNCHANGED storeVars

\* ParseMarkdownFileContent(content of the file)
DoParse ==
    /\ cpc = "parse"
    /\ cres' = ParseMarkdownFileContent(ctext, uuids)
    /\ IF cres'.err = ""
       THEN /\ cpc' = "rewrite"
            /\ uuids' = uuids + Len(cres'.doc.Stories)
       ELSE /\ cpc' = "parse_failed"
            /\ uuids' = uuids
    /\ UNCHANGED <<cdoc, ctext, cout, svc>>
    /\ UNCHANGED storeVars

\* WriteToFile of the parsed MarkdownFile, to another file
DoWriteBack ==
    /\ cpc = "rewrite"
    /\ \/ /\ cout' = WriteToFile(cres.doc)
          /\ cpc' = "done"
       \/ /\ cout' = cout
          /\ cpc' = "rewrite_failed"
    /\ UNCHANGED <<cdoc, ctext, cres, uuids, svc>>
    /\ UNCHANGED storeVars

CodecNext ==
    \/ DoWriteToFile
    \/ DoParse
    \/ DoWriteBack

CodecSpec == CodecInit /\ [][CodecNext]_vars

\* ------------------------------- UserStoryService.CategorizeAllStories
\* ReadUserStoriesFromFile: the loop over allFileLines from currentLineIndex on
RECURSIVE ReadLoop(_, _)
ReadLoop(lines, st) ==
    IF lines = <<>> THEN st
    ELSE LET line == Head(lines)
             trimmedLine == TrimSpace(line)
         IN ReadLoop(Tail(lines),
               IF st.isReadingSummary
               THEN IF HasPrefix(trimmedLine, BulletPrefix)
                       \/ HasPrefix(trimmedLine, BoldMarker)
                    THEN [st EXCEPT !.isReadingSummary = FALSE,
                                    !.storyContentLines = Append(@, line)]
                    ELSE [st EXCEPT !.summaryBuilder =
                                       IF @ # <<>> THEN @ \o <<NL>> \o line ELSE line]
               ELSE [st EXCEPT !.storyContentLines = Append(@, line)])

\* ReadUserStoriesFromFile: the loop over storyContentLines; the id of a
\* story is a new generateID() and the number of its line
RECURSIVE ServiceStories(_, _, _)
ServiceStories(lines, n, lineNumber) ==
    IF lines = <<>> THEN <<>>
    ELSE LET trimmedLine == TrimSpace(Head(lines))
         IN IF HasPrefix(trimmedLine, BulletPrefix)
            THEN LET story == StoryOfLine(trimmedLine)
                 IN <<UserStory(<<n + 1, lineNumber>>, story.Description,
                                story.Category)>>
                       \o ServiceStories(Tail(lines), n + 1, lineNumber + 1)
            ELSE ServiceStories(Tail(lines), n, lineNumber + 1)

\* ReadUserStoriesFromFile, os.Open giving openErr, the file holding content
ReadUserStoriesFromFile(openErr, content, n) ==
    IF openErr = "notexist"
    THEN [summary |-> <<>>, stories |-> <<>>, err |-> ""]
    ELSE IF openErr # ""
    THEN [summary |-> <<>>, stories |-> <<>>, err |-> "open"]
    ELSE LET allFileLines == ScanLines(content)
         IN IF \E i \in DOMAIN allFileLines :
                  ByteLen(allFileLines[i]) >= MaxScanTokenSize
            THEN [summary |-> <<>>, stories |-> <<>>, err |-> "scan"]
            ELSE LET summaryFirst ==
                        /\ allFileLines # <<>>
                        /\ TrimSpace(allFileLines[1]) = SummaryHeader
                     st == ReadLoop(IF summaryFirst THEN Tail(allFileLines)
                                    ELSE allFileLines,
                                    [isReadingSummary |-> summaryFirst,
                                     summaryBuilder |-> <<>>,
                                     storyContentLines |-> <<>>])
                 IN [summary |-> TrimSpace(st.summaryBuilder),
                     stories |-> ServiceStories(st.storyContentLines, n, 1),
                     err |-> ""]

\* sort.Strings on strings that differ from each other
RECURSIVE SortStrings(_)
SortStrings(strs) ==
    IF strs = <<>> THEN <<>>
    ELSE LET i == CHOOSE k \in DOMAIN strs :
                     \A j \in DOMAIN strs : ~StringLess(strs[j], strs[k])
         IN <<strs[i]>>
               \o SortStrings(SubSeq(strs, 1, i - 1) \o SubSeq(strs, i + 1, Len(strs)))

\* WriteUserStoriesToFile: the line of a story
ServiceStoryLine(story) ==
    BulletPrefix \o story.Description \o <<" ">> \o CategoryOpen
       \o GroupOf(story) \o <<"]", NL>>

RECURSIVE ServiceStoryLines(_)
ServiceStoryLines(stories) ==
    IF stories = <<>> THEN <<>>
    ELSE ServiceStoryLine(Head(stories)) \o ServiceStoryLines(Tail(stories))

\* WriteUserStoriesToFile: the loop over the sorted categoryOrder
RECURSIVE ServiceGroups(_, _)
ServiceGroups(order, stories) ==
    IF order = <<>> THEN <<>>
    ELSE BoldMarker \o Head(order) \o BoldMarker \o <<NL>>
            \o ServiceStoryLines(StoriesByCategory(stories, Head(order)))
            \o <<NL>>
            \o ServiceGroups(Tail(order), stories)

\* what a WriteUserStoriesToFile that returns nil has written to the file
WriteUserStoriesToFile(summary, stories) ==
    (IF summary # <<>>
     THEN SummaryHeader \o <<NL>>
             \o (IF TrimSpace(summary) # <<>>
                 THEN TrimSpace(summary) \o <<NL>> ELSE <<>>)
             \o <<NL>>
     ELSE <<>>)
    \o (IF stories = <<>> THEN <<>>
        ELSE ServiceGroups(SortStrings(CategoryOrder(stories, <<>>)), stories))

\* What s.llmService.AskSimple returns for a story: an error, or a text
\* (empty, blank, a label, a label with white space around it).
LlmReplies ==
    { [err |-> TRUE, text |-> <<>>],
      [err |-> FALSE, text |-> <<>>],
      [err |-> FALSE, text |-> <<" ">>],
      [err |-> FALSE, text |-> <<"A">>],
      [err |-> FALSE, text |-> <<" ", "B", NL>>] }

\* the body of the loop of CategorizeAllStories: categorizedStories[i]
CategorizeStory(story, reply) ==
    IF reply.err
    THEN [story EXCEPT !.Category = Uncategorized]
    ELSE LET category == TrimSpace(reply.text)
         IN [story EXCEPT !.Category =
                IF category = <<>> THEN Uncategorized ELSE category]

\* sort.Slice(categorizedStories, by Category): an order of the stories with
\* ascending categories; the sort is not stable
SortSlice(stories) ==
    { [i \in DOMAIN o |-> stories[o[i]]] : o \in
         { q \in Orderings(DOMAIN stories) :
              \A i, j \in DOMAIN q :
                 i < j => ~StringLess(stories[q[j]].Category, stories[q[i]].Category) } }

\* The files the service finds: nothing or a summary, then up to
\* MaxFileLines lines.
ServiceHeads == { <<>>, <<SummaryHeader, <<"s">>, <<>>>> }
ServiceLines ==
    { <<"*", "*", "A", "*", "*">>,
      <<"-", " ", "x", " ", "[Category:", " ", "B", "]">>,
      <<"-", " ", "y">>,
      <<LongRun>> }
ServiceFiles ==
    { JoinLines(h \o b) : h \in ServiceHeads,
                          b \in SeqsUpTo(ServiceLines, MaxFileLines) }

\* `muserstory categorize`: the file is there, or is missing, or cannot be
\* opened
CategorizeInit ==
    /\ StoreUnused
    /\ cpc = "svc_read"
    /\ \/ /\ svc = SvcLocals("")
          /\ ctext \in ServiceFiles
       \/ /\ svc = SvcLocals("notexist")
          /\ ctext = <<>>
       \/ /\ svc = SvcLocals("open")
          /\ ctext \in {<<>>, JoinLines(<<<<"-", " ", "y">>>>)}
    /\ cdoc = NilMarkdownFile
    /\ cres = NoResult
    /\ cout = <<>>
    /\ uuids = 0

\* currentSummary, stories, err := s.ReadUserStoriesFromFile(), and the two
\* returns that follow it
SvcRead ==
    /\ cpc = "svc_read"
    /\ LET r == ReadUserStoriesFromFile(svc.openErr, ctext, uuids)
       IN /\ svc' = [svc EXCEPT !.currentSummary = r.summary,
                                !.stories = r.stories,
                                !.err = IF r.err # "" THEN "read" ELSE ""]
          /\ uuids' = uuids + Len(r.stories)
          /\ cpc' = IF r.err # "" THEN "svc_failed"
                    ELSE IF r.stories = <<>> THEN "svc_write_empty"
                    ELSE "svc_categories"
    /\ UNCHANGED <<cdoc, ctext, cres, cout>>
    /\ UNCHANGED storeVars

\* len(stories) == 0: the summary is written back with no stories
SvcWriteEmpty ==
    /\ cpc = "svc_write_empty"
    /\ \/ /\ ctext' = WriteUserStoriesToFile(svc.currentSummary, <<>>)
          /\ cpc' = "svc_done"
          /\ svc' = svc
       \/ /\ ctext' = ctext
          /\ cpc' = "svc_failed"
          /\ svc' = [svc EXCEPT !.err = "write"]
    /\ UNCHANGED <<cdoc, cres, cout, uuids>>
    /\ UNCHANGED storeVars

\* possibleCategories := s.GeneratePossibleCategories(stories): nil when
\* AskAdvanced or the decoding of its answer fails; it only goes into the
\* prompt of AskSimple
SvcPossibleCategories ==
    /\ cpc = "svc_categories"
    /\ \E answer \in {"nil", "list"} :
          svc' = [svc EXCEPT !.possibleCategories = answer]
    /\ cpc' = "svc_loop"
    /\ UNCHANGED <<cdoc, ctext, cres, cout, uuids>>
    /\ UNCHANGED storeVars

\* one turn of the loop over stories
SvcCategorize_AbortOnError ==
    /\ cpc = "svc_loop"
    /\ Len(svc.categorizedStories) < Len(svc.stories)
    /\ \E reply \in LlmReplies :
          LET story == svc.stories[Len(svc.categorizedStories) + 1]
          IN IF reply.err
             THEN /\ svc' = [svc EXCEPT !.replies = Append(@, reply),
                                        !.err = "categorize"]
                  /\ cpc' = "svc_failed"
             ELSE /\ svc' = [svc EXCEPT
                               !.categorizedStories =
                                   Append(@, CategorizeStory(story, reply)),
                               !.replies = Append(@, reply)]
                  /\ cpc' = cpc
    /\ UNCHANGED <<cdoc, ctext, cres, cout, uuids>>
    /\ UNCHANGED storeVars

SvcCategorize ==
    /\ cpc = "svc_loop"
    /\ Len(svc.categorizedStories) < Len(svc.stories)
    /\ \E reply \in LlmReplies :
          LET story == svc.stories[Len(svc.categorizedStories) + 1]
          IN svc' = [svc EXCEPT
                        !.categorizedStories =
                            Append(@, CategorizeStory(story, reply)),
                        !.replies = Append(@, reply)]
    /\ UNCHANGED <<cpc, cdoc, ctext, cres, cout, uuids>>
    /\ UNCHANGED storeVars

\* after the loop: sort.Slice, WriteUserStoriesToFile, return
SvcSortAndWrite ==
    /\ cpc = "svc_loop"
    /\ Len(svc.categorizedStories) = Len(svc.stories)
    /\ \E sorted \in SortSlice(svc.categorizedStories) :
          \/ /\ ctext' = WriteUserStoriesToFile(svc.currentSummary, sorted)
             /\ cpc' = "svc_done"
             /\ svc' = [svc EXCEPT !.categorizedStories = sorted]
          \/ /\ ctext' = ctext
             /\ cpc' = "svc_failed"
             /\ svc' = [svc EXCEPT !.categorizedStories = sorted, !.err = "write"]
    /\ UNCHANGED <<cdoc, cres, cout, uuids>>
    /\ UNCHANGED storeVars

CategorizeNext ==
    \/ SvcRead
    \/ SvcWriteEmpty
    \/ SvcPossibleCategories
    \/ SvcCategorize
    \/ SvcSortAndWrite

CategorizeSpec == CategorizeInit /\ [][CategorizeNext]_vars

\* ------------------------------------------------------------ properties
\* The aggregates a backing file holds, by value (a missing or zero-byte file
\* holds none; undecodable bytes hold no set of aggregates at all).
FileAggregates(f) == {f.list[i] : i \in DOMAIN f.list}
FileHolds(f, S) ==
    \/ f.kind = "json" /\ FileAggregates(f) = S
    \/ f.kind \in {"absent", "empty"} /\ S = {}

\* The aggregates of the map, by value.
MapAggregates(m, h) == {Val(h, m[id]) : id \in DOMAIN m}

\* The steps in which a call of request goroutine c returns.
StoreReturns(c) == pc[c] = "store" /\ pc'[c] = "idle"
GetReturns(c) == pc[c] = "get" /\ pc'[c] = "idle"

\* C1: when StopAutoSave returns, the backing file holds exactly the
\* aggregates that are in the map at that moment, whether or not a tick fired
\* since the last StoreProject.
C1_StopFlushesMap ==
    [][(mainPc = "stop_send" /\ mainPc' = "stopped")
          => FileHolds(file', MapAggregates(projects', heap'))]_vars

\* C2: a StoreProject whose project has the empty id returns an error and
\* leaves the map as it was: GetProjects returns the same aggregates before
\* and after.
C2_EmptyIdRejected ==
    [][\A c \in Callers :
          (StoreReturns(c) /\ arg[c].ID = "")
             => /\ ret'[c].kind = "store"
                /\ ret'[c].err # ""
                /\ projects' = projects
                /\ StoreView(projects', heap') = StoreView(projects, heap)]_vars

C2_Witness ==
    \E c \in Callers :
       /\ ret[c].kind = "store"
       /\ ret[c].err = "emptyid"
       /\ "a" \in DOMAIN projects
       /\ "" \notin DOMAIN projects

\* C3: after StoreProject calls with the same non-empty id, GetProjectByID
\* returns exactly the project of the last of them (name, summary and
\* records: nothing of an earlier one survives), and GetProjects holds one
\* aggregate with that id.
C3_SecondReplacesFirst ==
    [][\A c \in Callers :
          (GetReturns(c) /\ lastReturned[arg[c].ID] # NoProject)
             => /\ ret'[c].kind = "get"
                /\ ret'[c].err = ""
                /\ ret'[c].project = lastReturned[arg[c].ID]
                /\ Val(heap', ret'[c].project).ID = arg[c].ID
                /\ \A list \in RangeProjects(projects) :
                      Cardinality({i \in DOMAIN list : list[i].ID = arg[c].ID}) = 1]_vars

\* a GetProjectByID has returned the second of two StoreProject("a", ..)
\* calls, which differ in name, summary and records
C3_Witness ==
    \E c \in Callers :
       /\ loadedIds = {}
       /\ replaced["a"] # NoProject
       /\ ret[c].kind = "get"
       /\ ret[c].err = ""
       /\ ret[c].project = lastReturned["a"]
       /\ ret[c].project.Name # replaced["a"].Name
       /\ ret[c].project.Summary # replaced["a"].Summary
       /\ Val(heap, ret[c].project).UserStories # Val(heap, replaced["a"]).UserStories

\* C4, as claimed: GetProjectByID of an id that no StoreProject has inserted
\* returns a not-found error and no project data.
C4_NeverInsertedNotFound ==
    [][\A c \in Callers :
          (GetReturns(c) /\ lastReturned[arg[c].ID] = NoProject)
             => /\ ret'[c].err = "notfound"
                /\ ret'[c].project = ZeroProject]_vars

\* C4, amended: GetProjectByID of an id that no StoreProject has inserted and
\* that loadFromFile did not load from the backing file returns a not-found
\* error and no project data.
C4_AbsentIdNotFound ==
    [][\A c \in Callers :
          (GetReturns(c) /\ lastReturned[arg[c].ID] = NoProject
                         /\ arg[c].ID \notin loadedIds)
             => /\ ret'[c].kind = "get"
                /\ ret'[c].err = "notfound"
                /\ ret'[c].project = ZeroProject]_vars

C4_Witness ==
    \E c \in Callers :
       /\ ret[c].kind = "get"
       /\ ret[c].err = "notfound"
       /\ ret[c].project = ZeroProject
       /\ projects # EmptyMap

\* C5: NewJsonUserStoryRepository on a backing file that does not exist, or
\* that has zero bytes, returns a repository, and its GetProjects is empty.
C5_MissingOrEmptyFileIsEmptyStore ==
    [][(mainPc = "loaded" /\ mainPc' # "loaded" /\ file.kind \in {"absent", "empty"})
          => /\ mainPc' = "ready"
             /\ projects' = EmptyMap
             /\ RangeProjects(projects') = {<<>>}]_vars

\* the repository was constructed on a missing file, which no flush has
\* created yet, and a GetProjects has returned the empty list
C5_Witness ==
    /\ mainPc = "ready"
    /\ loadErr = "notexist"
    /\ file.kind = "absent"
    /\ \E c \in Callers : ret[c].kind = "list" /\ ret[c].list = <<>>

\* C6: NewJsonUserStoryRepository on a non-empty undecodable backing file
\* returns an error and no repository; no autoSave goroutine or ticker is
\* started, no call reaches a repository, and the file stays as it was.
C6_CorruptFileFailsConstruction ==
    /\ (mainPc = "loaded" /\ file.kind = "corrupt") => loadErr = "unmarshal"
    /\ loadErr = "unmarshal"
          => /\ mainPc \in {"loaded", "failed"}
             /\ bgPc = "notstarted"
             /\ ~tickerOn
             /\ calls = 0
             /\ projects = EmptyMap
             /\ file.kind = "corrupt"

C6_Witness ==
    /\ mainPc = "failed"
    /\ file.kind = "corrupt"
    /\ loadErr = "unmarshal"
    /\ bgPc = "notstarted"

\* C7: GetProjects returns a snapshot copy: whatever a caller writes into
\* the slice it got back, a nested UserStories element included, what the
\* store holds (and so what a later GetProjects, GetProjectByID or flush
\* yields) stays as it was.
C7_ListIsSnapshotCopy ==
    [][(\E c \in Callers : MutateResultField(c) \/ MutateResultStory(c))
          => StoreView(projects', heap') = StoreView(projects, heap)]_vars

\* The goroutines that are between the Lock and the return of a method that
\* reads or writes r.projects.
InMap ==
    {c \in Callers : pc[c] \in {"store", "list", "get"}}
    \cup (IF mainPc = "load" THEN {"main"} ELSE {})
    \cup (IF bgPc = "save" THEN {"autoSave"} ELSE {})

\* C8: at most one of StoreProject, GetProjects, GetProjectByID, loadFromFile
\* and saveToFile is at the map at any instant, and it holds r.mu from before
\* its first access until it returns.
C8_MutualExclusion ==
    /\ Cardinality(InMap) <= 1
    /\ \A g \in InMap : mu = g
    /\ (InMap = {} => mu = "")

\* a StoreProject holds the lock while saveToFile waits for it
C8_Witness ==
    /\ bgPc = "save_lock"
    /\ \E c \in Callers : pc[c] = "store" /\ mu = c

\* C9: once every StoreProject of an id has returned, the map holds under
\* that id exactly the project of the StoreProject that took the lock last.
C9_LastLockerWins ==
    \A id \in IDs \ {""} :
       (/\ lastAcquired[id] # NoProject
        /\ \A c \in Callers : ~(pc[c] = "store" /\ arg[c].ID = id))
          => /\ id \in DOMAIN projects
             /\ projects[id] = lastAcquired[id]

\* both request goroutines have stored under "a"; one replaced the other's
C9_Witness ==
    /\ \A c \in Callers : ret[c].kind = "store" /\ ret[c].err = "" /\ pc[c] = "idle"
    /\ loadedIds = {}
    /\ replaced["a"] # NoProject
    /\ replaced["a"] # projects["a"]
    /\ projects["a"] = lastAcquired["a"]

\* The file shows that a flush has failed since the last successful one: a
\* repository is never constructed on undecodable bytes, so they are a torn
\* write of saveToFile.
FlushHasFailed == file.kind = "corrupt" /\ mainPc \in {"ready", "stop_send", "stopped"}

\* C10: a saveToFile that returns an error neither ends autoSave's loop nor
\* leaves r.mu held: autoSave is back at its select with the ticker running
\* (it exits only on the stop signal), the next tick is taken, and the
\* repository's methods find the mutex free.
C10_FlushFailureIsSurvived ==
    /\ bgPc # "save" => mu # "autoSave"
    /\ FlushHasFailed =>
          /\ bgPc \in {"select", "save_lock", "save", "exited"}
          /\ bgPc = "exited" => mainPc = "stopped"
          /\ mainPc # "stopped" => tickerOn
          /\ (bgPc = "select" /\ tickPending) => ENABLED AutoSaveTick
          /\ (bgPc = "save_lock" /\ InMap = {}) => ENABLED SaveLock
          /\ \A c \in Callers :
                (pc[c] = "idle" /\ InMap = {} /\ calls < MaxCalls)
                   => /\ ENABLED GetProjectsLock(c)
                      /\ ENABLED GetProjectByIDLock(c, "a")
                      /\ \A v \in StoreInputs : ENABLED StoreProjectLock(c, v)

\* after a failed flush, a StoreProject holds the lock and autoSave, having
\* taken a later tick, is about to flush again
C10_Witness ==
    /\ FlushHasFailed
    /\ bgPc = "save_lock"
    /\ \E c \in Callers : pc[c] = "store" /\ mu = c

\* The step in which StopAutoSave returns to main.  The method has no
\* result, so a return is its only outcome and tells main of no failure.
StopAutoSaveReturns == mainPc = "stop_send" /\ mainPc' = "stopped"

\* C11: StopAutoSave does not return as a success while the map's last state
\* is not in the backing file: when it returns, the file is not the torn
\* write of a failed flush and holds the aggregates of the map.
C11_StopSurfacesFlushFailure ==
    [][StopAutoSaveReturns
          => /\ file'.kind # "corrupt"
             /\ FileHolds(file', MapAggregates(projects', heap'))]_vars

\* --------------------------------------------------- the markdown codec
\* ParseMarkdownFileContent has returned a MarkdownFile / has returned.
Parsed == cpc \in {"rewrite", "rewrite_failed", "done"}
ParseReturned == Parsed \/ cpc = "parse_failed"

\* The run started from a MarkdownFile, which WriteToFile wrote to ctext.
FromDocument == cdoc # NilMarkdownFile

\* A string holds no tag opener "[Category: ".
TagFree(str) == LastIndex(str, CategoryOpen) = -1

TagFreeDescriptions(m) ==
    \A i \in DOMAIN m.Stories : TagFree(m.Stories[i].Description)

NonEmptyDescriptions(m) ==
    \A i \in DOMAIN m.Stories : m.Stories[i].Description # <<>>

\* C12: for a MarkdownFile d whose stories all have non-empty, tag-free
\* descriptions, the file written from the parse of the file written from d
\* has the same bytes as the file written from d.
C12_RoundTripByteStable ==
    (cpc = "done" /\ FromDocument
        /\ NonEmptyDescriptions(cdoc) /\ TagFreeDescriptions(cdoc))
       => cout = ctext

\* The (description, category) pair of a story, and how often a pair occurs
\* in a list of stories.
PairOf(story) == <<story.Description, story.Category>>
PairCount(stories, pair) ==
    Cardinality({i \in DOMAIN stories : PairOf(stories[i]) = pair})
SamePairs(a, b) ==
    /\ Len(a) = Len(b)
    /\ \A i \in DOMAIN a : PairCount(a, PairOf(a[i])) = PairCount(b, PairOf(a[i]))

\* A list of stories is grouped by category, the groups in ascending order
\* of their label (the stories without a category are those of the group
\* "Uncategorized").
AscendingByCategory(stories) ==
    \A i, j \in DOMAIN stories :
       i < j => ~StringLess(GroupOf(stories[j]), GroupOf(stories[i]))

\* C13: for a MarkdownFile d with tag-free descriptions, the parse of the
\* file written from d has the same (description, category) pairs as d, each
\* as often, and its stories are grouped by category in ascending order of
\* the category label.
C13_ParseOfWrittenKeepsPairsSorted ==
    (ParseReturned /\ FromDocument /\ TagFreeDescriptions(cdoc))
       => /\ cres.err = ""
          /\ SamePairs(cres.doc.Stories, cdoc.Stories)
          /\ AscendingByCategory(cres.doc.Stories)

\* The labels of the category headers `**label**` of a text, in its order.
HeaderLabels(text) ==
    LET lines == ScanLines(text)
        headers == SelectSeq(lines, LAMBDA l : HasPrefix(l, BoldMarker))
    IN [i \in DOMAIN headers |-> SubSeq(headers[i], 3, Len(headers[i]) - 2)]

\* cdoc with its stories in the order o
Reordered(m, o) == [m EXCEPT !.Stories = [i \in DOMAIN o |-> m.Stories[o[i]]]]

\* the order o keeps the order of the stories inside each category
KeepsCategoryOrder(m, o) ==
    \A i, j \in DOMAIN o :
       (i < j /\ m.Stories[o[i]].Category = m.Stories[o[j]].Category)
          => o[i] < o[j]

\* C14: the file WriteToFile writes has its category groups in ascending
\* order of the label, whatever the order of the stories: a MarkdownFile
\* with the same stories in another order that keeps the order inside each
\* category gives the same text.
C14_GroupsSortedForEveryOrder ==
    (cpc = "parse" /\ FromDocument)
       => /\ \A i, j \in DOMAIN HeaderLabels(ctext) :
                i < j => StringLess(HeaderLabels(ctext)[i], HeaderLabels(ctext)[j])
          /\ \A o \in Orderings(DOMAIN cdoc.Stories) :
                KeepsCategoryOrder(cdoc, o)
                   => WriteToFile(Reordered(cdoc, o)) = ctext

\* The text handed to ParseMarkdownFileContent is one line, without "\n",
\* that starts with the bullet prefix once trimmed; its payload is what
\* follows the prefix in the trimmed line.
OneLine == cdoc = NilMarkdownFile /\ \A i \in DOMAIN ctext : ctext[i] # NL
RecordLine == OneLine /\ HasPrefix(TrimSpace(ctext), BulletPrefix)
Payload == SubSeq(TrimSpace(ctext), Len(BulletPrefix) + 1, Len(TrimSpace(ctext)))

\* The payload is text, the tag opener at index i, a label and a closing
\* "]" as its last symbol; the label holds no further opener.
TagAt(payload, i) ==
    /\ i >= 1
    /\ i + Len(CategoryOpen) <= Len(payload)
    /\ SubSeq(payload, i, i + Len(CategoryOpen) - 1) = CategoryOpen
    /\ payload[Len(payload)] = "]"
    /\ TagFree(SubSeq(payload, i + Len(CategoryOpen), Len(payload) - 1))

\* C15: a record line whose payload is `<text>[Category: <label>]`, the
\* closing bracket being its last symbol, parses to one story with the
\* trimmed text as description and the label as category.
C15_TaggedLineGivesTextAndLabel ==
    (ParseReturned /\ RecordLine)
       => \A i \in DOMAIN Payload :
             TagAt(Payload, i)
                => /\ cres.err = ""
                   /\ Len(cres.doc.Stories) = 1
                   /\ cres.doc.Stories[1].Description
                         = TrimSpace(SubSeq(Payload, 1, i - 1))
                   /\ cres.doc.Stories[1].Category
                         = SubSeq(Payload, i + Len(CategoryOpen), Len(Payload) - 1)

\* `- x [Category: x]` has been parsed to ("x", "x")
C15_Witness ==
    /\ Parsed
    /\ ctext = BulletPrefix \o <<"x", " ">> \o CategoryOpen \o <<"x", "]">>
    /\ Len(cres.doc.Stories) = 1
    /\ PairOf(cres.doc.Stories[1]) = << <<"x">>, <<"x">> >>

\* C16: a record line without a tag, or whose tag is not at the end of the
\* line, parses to one story with the whole payload as description and the
\* category "Uncategorized"; the parse does not fail.
C16_UntaggedLineIsUncategorized ==
    (ParseReturned /\ RecordLine /\ \A i \in DOMAIN Payload : ~TagAt(Payload, i))
       => /\ cres.err = ""
          /\ Len(cres.doc.Stories) = 1
          /\ cres.doc.Stories[1].Description = Payload
          /\ cres.doc.Stories[1].Category = Uncategorized

\* `- x [Category: x] x` has been parsed to ("x [Category: x] x",
\* "Uncategorized")
C16_Witness ==
    /\ Parsed
    /\ ctext = BulletPrefix \o <<"x", " ">> \o CategoryOpen \o <<"x", "]", " ", "x">>
    /\ Len(cres.doc.Stories) = 1
    /\ PairOf(cres.doc.Stories[1])
          = << <<"x", " ">> \o CategoryOpen \o <<"x", "]", " ", "x">>, Uncategorized >>

\* The lines of the text handed to ParseMarkdownFileContent that are the
\* delimiter `---` once trimmed.
DelimiterLines ==
    {i \in DOMAIN ScanLines(ctext) : TrimSpace(ScanLines(ctext)[i]) = Delimiter}

\* C17: the parse of a text in which a delimiter line opens a metadata block
\* that no second delimiter line closes fails with the metadata error and
\* returns no MarkdownFile.
C17_UnclosedMetadataFails ==
    (ParseReturned /\ ~FromDocument /\ Cardinality(DelimiterLines) = 1)
       => /\ cres.err = "yaml"
          /\ cres.doc = NilMarkdownFile

\* C18: the parse of a text without a delimiter line returns a MarkdownFile
\* and no error, whatever its story lines and their tags look like.
C18_FailsOnlyThroughMetadata ==
    (ParseReturned /\ ~FromDocument /\ DelimiterLines = {})
       => /\ cres.err = ""
          /\ cres.doc # NilMarkdownFile

\* lines joined by "\n"
RECURSIVE NewlineJoined(_)
NewlineJoined(lines) ==
    IF lines = <<>> THEN <<>>
    ELSE IF Len(lines) = 1 THEN lines[1]
    ELSE lines[1] \o <<NL>> \o NewlineJoined(Tail(lines))

\* A line that starts with `- ` / with `- ` or `**`.
BulletLine(line) == HasPrefix(TrimSpace(line), BulletPrefix)
RecordContentLine(line) == BulletLine(line) \/ HasPrefix(TrimSpace(line), BoldMarker)

\* A line of summary text: free text, none of the codec's markers.
SummaryTextLine(line) ==
    /\ ~RecordContentLine(line)
    /\ TrimSpace(line) # Delimiter
    /\ ~HasPrefix(TrimSpace(line), SummaryHeader)
    /\ ByteLen(line) < MaxScanTokenSize

\* The lines are a closed metadata block, the line `# Summary`, summary
\* text up to line n - 1, and category headers and bullet lines from line n.
SummaryDocument(lines, n) ==
    /\ Len(lines) >= 4
    /\ n \in 5..(Len(lines) + 1)
    /\ lines[1] = Delimiter
    /\ YamlEntry(lines[2])
    /\ lines[3] = Delimiter
    /\ lines[4] = SummaryHeader
    /\ \A i \in 5..(n - 1) : SummaryTextLine(lines[i])
    /\ \A i \in n..Len(lines) : RecordContentLine(lines[i])

\* C19: for a text made of a closed metadata block, a `# Summary` line,
\* summary lines and then category headers and bullet lines, the parse
\* succeeds, the summary is the trimmed, newline-joined lines between the
\* header and the first line that starts with `- ` or `**`, and every bullet
\* line from that line on, that line included, is a story.
C19_SummaryEndsAtFirstRecordLine ==
    (ParseReturned /\ ~FromDocument)
       => LET lines == ScanLines(ctext)
          IN \A n \in 5..(Len(lines) + 1) :
                SummaryDocument(lines, n)
                   => /\ cres.err = ""
                      /\ cres.doc.Summary
                            = TrimSpace(NewlineJoined(SubSeq(lines, 5, n - 1)))
                      /\ Len(cres.doc.Stories)
                            = Cardinality({i \in n..Len(lines) : BulletLine(lines[i])})
                      /\ DOMAIN cres.doc.Metadata = {lines[2][1]}

\* the block, `# Summary`, `s`, `**A**`, `- x` has been parsed to the
\* summary "s" and the story x
C19_Witness ==
    /\ Parsed
    /\ ctext = JoinLines(<<Delimiter, <<"k", ":", " ", "v">>, Delimiter,
                           SummaryHeader, <<"s">>,
                           <<"*", "*", "A", "*", "*">>, <<"-", " ", "x">>>>)
    /\ cres.doc.Summary = <<"s">>
    /\ Len(cres.doc.Stories) = 1
    /\ cres.doc.Stories[1].Description = <<"x">>


\* --------------------------------------------------- bulk categorization
\* the categorized story that came from stories[i]: a story keeps its ID
CategorizedOf(i) ==
    { c \in { svc.categorizedStories[k] : k \in DOMAIN svc.categorizedStories } :
         c.ID = svc.stories[i].ID }

\* how many of the stories have the description
DescriptionCount(stories, description) ==
    Cardinality({ i \in DOMAIN stories : stories[i].Description = description })

SameDescriptions(a, b) ==
    \A d \in { a[i].Description : i \in DOMAIN a }
               \cup { b[i].Description : i \in DOMAIN b } :
       DescriptionCount(a, d) = DescriptionCount(b, d)

\* the lines of the file that are story lines
FileStoryLines ==
    LET lines == ScanLines(ctext)
    IN SelectSeq(lines, LAMBDA line : HasPrefix(line, BulletPrefix))

LineCount(lines, line) ==
    Cardinality({ i \in DOMAIN lines : lines[i] = line })

\* the line WriteUserStoriesToFile gives a story, without its line end
WrittenLine(story) ==
    SubSeq(ServiceStoryLine(story), 1, Len(ServiceStoryLine(story)) - 1)

\* C20: CategorizeAllStories is best effort per story.  No reply of the
\* classification call ends the run: it fails only when the file cannot be
\* read or written.  Every story that has had its turn is in
\* categorizedStories once, with its description; when its call failed or
\* gave an empty or blank label its category is "Uncategorized", otherwise
\* the trimmed label.  When the run is done the stories written are the
\* stories read, description for description, and the file holds one story
\* line for each of them.
C20_CategorizeIsBestEffort ==
    /\ svc.err \in {"", "read", "write"}
    /\ cpc \in {"svc_loop", "svc_done"} =>
          /\ Len(svc.replies) = Len(svc.categorizedStories)
          /\ \A i \in DOMAIN svc.replies :
                /\ Cardinality(CategorizedOf(i)) = 1
                /\ \A c \in CategorizedOf(i) :
                      /\ c.Description = svc.stories[i].Description
                      /\ c.Category =
                            IF svc.replies[i].err
                               \/ TrimSpace(svc.replies[i].text) = <<>>
                            THEN Uncategorized
                            ELSE TrimSpace(svc.replies[i].text)
    /\ cpc = "svc_done" =>
          /\ Len(svc.categorizedStories) = Len(svc.stories)
          /\ SameDescriptions(svc.categorizedStories, svc.stories)
          /\ Len(FileStoryLines) = Len(svc.stories)
          /\ \A i \in DOMAIN svc.categorizedStories :
                LineCount(FileStoryLines, WrittenLine(svc.categorizedStories[i]))
                   = Cardinality({ k \in DOMAIN svc.categorizedStories :
                                      WrittenLine(svc.categorizedStories[k])
                                         = WrittenLine(svc.categorizedStories[i]) })

\* a finished run over two stories: the call for the first failed, the
\* call for the second gave a label, and both are in the file
C20_Witness ==
    /\ cpc = "svc_done"
    /\ Len(svc.stories) = 2
    /\ svc.replies[1].err
    /\ ~svc.replies[2].err
    /\ TrimSpace(svc.replies[2].text) = <<"A">>
    /\ Len(FileStoryLines) = 2

\* ------------------------------------------------- the periodic flush
\* The step in which saveToFile returns nil to autoSave: os.WriteFile has
\* written the marshalled slice and returned no error.
SaveReturnsNil ==
    /\ bgPc = "save"
    /\ bgPc' = "select"
    /\ \E list \in RangeProjects(projects) :
          \E w \in WriteFile(file, Marshal(list, heap)) :
             w.err = "" /\ file' = w.file

\* C21: when saveToFile returns nil, the backing file holds exactly the
\* aggregates the map held while saveToFile had the lock, each of them once:
\* nothing of what the file held before is left, nothing of the map is
\* missing.
C21_FlushWritesWholeMap ==
    [][SaveReturnsNil
          => /\ file'.kind = "json"
             /\ FileAggregates(file') = MapAggregates(projects, heap)
             /\ Len(file'.list) = Cardinality(DOMAIN projects)
             /\ projects' = projects]_vars

\* the file the repository was loaded from held "a" with name n1; a
\* StoreProject replaced it, and a flush has left the new aggregate alone in
\* the file
C21_Witness ==
    /\ loadedIds = {"a"}
    /\ replaced["a"] # NoProject
    /\ projects["a"].Name = "n2"
    /\ bgPc = "select"
    /\ file = File("json", <<Val(heap, projects["a"])>>)

\* C22: once StopAutoSave has returned, autoSave has left its loop and the
\* ticker is stopped: no step after that is a flush, and the backing file
\* stays as it is, also when a tick was buffered in r.ticker.C at the time
\* of the stop.
C22_NoFlushAfterStop ==
    [][mainPc = "stopped"
          => /\ bgPc = "exited"
             /\ bgPc' = "exited"
             /\ tickerOn = FALSE
             /\ tickerOn' = FALSE
             /\ file' = file]_vars

\* StopAutoSave has returned with a tick still buffered, and the map holds
\* a project that the file does not
C22_Witness ==
    /\ mainPc = "stopped"
    /\ tickPending
    /\ bgPc = "exited"
    /\ "a" \in DOMAIN projects
    /\ ~FileHolds(file, MapAggregates(projects, heap))
    /\ \A c \in Callers : pc[c] = "idle"

\* C23: a StopAutoSave called when autoSave has already returned is not
\* blocked: its send on r.doneChan can complete, so that it returns.
C23_StopAfterExitReturns ==
    (mainPc = "stop_send" /\ bgPc = "exited") => ENABLED AutoSaveDone

\* -------------------------------------------------------- termination
\* C24: every call of StoreProject, GetProjects and GetProjectByID returns,
\* and so does StopAutoSave, however the calls interleave with each other
\* and with the flushes of autoSave.
C24_EveryCallReturns ==
    /\ \A c \in Callers : (pc[c] # "idle") ~> (pc[c] = "idle")
    /\ (mainPc = "stop_send") ~> (mainPc = "stopped")

\* StopAutoSave waits in its send while autoSave is in saveToFile, and both
\* request goroutines wait in Lock()
C24_Witness ==
    /\ mainPc = "stop_send"
    /\ bgPc = "save"
    /\ mu = "autoSave"
    /\ pc["c1"] = "store_call"
    /\ pc["c2"] = "get_call"

\* ------------------------------------------------- memory and the file
\* A step of a request goroutine: a r.mu.Lock() of StoreProject, GetProjects
\* or GetProjectByID returns, or the method returns.
RequestStep == \E c \in Callers : pc'[c] # pc[c]

\* C25: StoreProject, GetProjects and GetProjectByID leave the backing file
\* as it is, and the only step that changes the file is the write of
\* saveToFile: what a StoreProject put into the map is in memory only until
\* a flush.
C25_OnlyFlushTouchesFile ==
    [][/\ RequestStep => file' = file
       /\ file' # file => (bgPc = "save" /\ bgPc' = "select" /\ ~RequestStep)]_vars

\* a StoreProject of "a" has returned and a GetProjectByID has found it,
\* while there is still no backing file
C25_Witness ==
    /\ file.kind = "absent"
    /\ lastReturned["a"] # NoProject
    /\ \E c \in Callers : /\ ret[c].kind = "get"
                          /\ ret[c].err = ""
                          /\ ret[c].project = lastReturned["a"]

\* ------------------------------------------------ a flush cut short
\* C26: when the process has died in a flush and the file held a complete
\* snapshot (at the start of that flush, or from that flush), a
\* NewJsonUserStoryRepository on the file that returns a repository returns
\* one that holds the aggregates of that snapshot: not an empty or a partial
\* store.
C26_RestartRecoversSnapshot ==
    [][(mainPc = "loaded" /\ mainPc' = "ready" /\ snapshot # NoSnapshot)
          => MapAggregates(projects', heap') = FileAggregates(snapshot)]_vars

\* ListReturns(c): the step in which a GetProjects of c returns
ListReturns(c) == pc[c] = "list" /\ pc'[c] = "idle"

\* C27: a GetProjectByID that takes the lock after a StoreProject of its id
\* has returned nil returns the project of the last StoreProject of that id
\* that has returned, and a GetProjects that takes the lock then holds, for
\* every id stored so, that project: no flush is needed in between.
C27_StoreVisibleAtOnce ==
    [][\A c \in Callers :
          /\ (GetReturns(c) /\ lastReturned[arg[c].ID] # NoProject)
                => /\ ret'[c].err = ""
                   /\ ret'[c].project = lastReturned[arg[c].ID]
          /\ ListReturns(c)
                => \A id \in IDs :
                      lastReturned[id] # NoProject
                         => \E i \in DOMAIN ret'[c].list :
                               /\ ret'[c].list[i] = lastReturned[id]
                               /\ Val(heap', ret'[c].list[i]).ID = id]_vars

\* two StoreProject calls of "a" have returned, no tick has come and there
\* is no backing file; a GetProjects has returned the second project alone
C27_Witness ==
    /\ file.kind = "absent"
    /\ ~tickPending
    /\ bgPc = "select"
    /\ replaced["a"] # NoProject
    /\ replaced["a"] # lastReturned["a"]
    /\ \E c \in Callers : /\ ret[c].kind = "list"
                          /\ ret[c].list = <<lastReturned["a"]>>

\* --------------------------------------------------------- the map
\* the repository has been constructed
Constructed == mainPc \in {"ready", "stop_send", "stopped"}

\* C28: no step of a constructed repository (StoreProject, GetProjects,
\* GetProjectByID, a flush, StopAutoSave) takes an id out of the map: an id
\* that GetProjectByID finds is found in every later state.
C28_IdsNeverShrink ==
    [][Constructed
          => /\ DOMAIN projects \subseteq DOMAIN projects'
             /\ \A id \in IDs :
                   Lookup(projects, id).err = "" => Lookup(projects', id).err = ""]_vars

\* a GetProjectByID has found "a"; since then the map was flushed to the
\* file and StopAutoSave has returned, and "a" is still in the map
C28_Witness ==
    /\ mainPc = "stopped"
    /\ loadedIds = {}
    /\ file.kind = "json"
    /\ "a" \in DOMAIN projects
    /\ FileHolds(file, MapAggregates(projects, heap))
    /\ \E c \in Callers : ret[c].kind = "get" /\ ret[c].err = ""

\* C29: no project in the map has the empty id, in any state, the state
\* right after loadFromFile included.
C29_NoEmptyIdInMap ==
    /\ "" \notin DOMAIN projects
    /\ \A id \in DOMAIN projects : projects[id].ID # ""

\* C30: every entry of the map is under the key that is its project's ID, so
\* that every slice GetProjects can build, and every one it has returned,
\* holds no two projects with the same ID.
C30_KeyedByOwnId ==
    /\ \A k \in DOMAIN projects : projects[k].ID = k
    /\ \A list \in RangeProjects(projects) :
          \A i, j \in DOMAIN list : list[i].ID = list[j].ID => i = j
    /\ \A c \in Callers :
          ret[c].kind = "list"
             => \A i, j \in DOMAIN ret[c].list :
                   ret[c].list[i].ID = ret[c].list[j].ID => i = j

\* the map holds a project from the file and "a", stored twice, and a
\* GetProjects has returned the two of them
C30_Witness ==
    /\ Cardinality(DOMAIN projects) = 2
    /\ loadedIds # {}
    /\ replaced["a"] # NoProject
    /\ \E c \in Callers : /\ ret[c].kind = "list"
                          /\ Len(ret[c].list) = 2
                          /\ ret[c].list[1].ID # ret[c].list[2].ID

\* ------------------------------------------- flushes and the map
\* C31: a flush writes the map of one instant.  From the Lock() of
\* saveToFile to its return no step changes what the map holds, whatever
\* the request goroutines are doing, and what a successful saveToFile has
\* written is what the map holds then.
C31_SnapshotOfOneInstant ==
    [][/\ bgPc = "save"
             => /\ StoreView(projects', heap') = StoreView(projects, heap)
                /\ \A c \in Callers : pc'[c] \notin {"store", "list", "get"}
       /\ SaveReturnsNil
             => /\ file'.kind = "json"
                /\ FileAggregates(file') = MapAggregates(projects', heap')]_vars

\* a flush has written the map with "a" to the file, and a StoreProject
\* that will replace "a" has the lock
C31_Witness ==
    /\ loadedIds = {}
    /\ file.kind = "json"
    /\ "a" \in DOMAIN projects
    /\ FileAggregates(file) = MapAggregates(projects, heap)
    /\ \E c \in Callers : /\ pc[c] = "store"
                          /\ arg[c].ID = "a"
                          /\ Val(heap, arg[c]) # Val(heap, projects["a"])

\* C32: the autoSave goroutine starts only after the one loadFromFile of the
\* constructor has returned without an error other than not-exist, with the
\* content of the backing file in the map; until it has started no step
\* changes the file, so no flush overwrites content that was not read.
C32_FlushStartsAfterLoad ==
    [][/\ bgPc = "notstarted" => file' = file
       /\ (bgPc = "notstarted" /\ bgPc' # "notstarted")
             => /\ mainPc = "loaded"
                /\ loadErr \in {"", "notexist"}
                /\ FileHolds(file, MapAggregates(projects, heap))
       /\ bgPc' # "notstarted" => mainPc' \in {"ready", "stop_send", "stopped"}]_vars

\* the file held "a", the constructor has read it into the map, and the
\* first flush now holds the lock
C32_Witness ==
    /\ mainPc = "ready"
    /\ bgPc = "save"
    /\ "a" \in loadedIds
    /\ file.kind = "json"
    /\ FileAggregates(file) = MapAggregates(projects, heap)

\* Reloaded(f): what loadFromFile of a new repository leaves for file f
Reloaded(f) == LoadFromFile(f, <<>>, EmptyMap)

\* C33: snapshot round trip.  loadFromFile of a new repository on the file
\* that a saveToFile returning nil has written returns nil and leaves a map
\* equal, key by key and by value, to the map that was flushed, the empty
\* map included.
C33_SnapshotRoundTrip ==
    [][SaveReturnsNil
          => /\ Reloaded(file').err = ""
             /\ StoreView(Reloaded(file').projects, Reloaded(file').heap)
                   = StoreView(projects, heap)]_vars

\* a flush of a map holding "a" with its story has returned nil, and the
\* file loads to that map
C33_Witness ==
    /\ bgPc = "select"
    /\ file.kind = "json"
    /\ DOMAIN projects = {"a"}
    /\ Val(heap, projects["a"]).UserStories # <<>>
    /\ loadedIds = {}
    /\ Reloaded(file).err = ""
    /\ StoreView(Reloaded(file).projects, Reloaded(file).heap) = StoreView(projects, heap)

\* ------------------------------------------- the groups WriteToFile writes
\* WriteToFile has written cdoc to ctext.
Written == FromDocument /\ cpc \notin {"write", "write_failed"}

\* The group labels of a MarkdownFile, and the lines of its stories in a
\* text: every group is a header, one line per story and an empty line, and
\* the groups are the end of the text.
Groups(m) == {GroupOf(m.Stories[i]) : i \in DOMAIN m.Stories}
RecordSection(text, m) ==
    LET lines == ScanLines(text)
        k == Len(m.Stories) + 2 * Cardinality(Groups(m))
    IN IF k > Len(lines) THEN lines
       ELSE SubSeq(lines, Len(lines) - k + 1, Len(lines))

\* A line `**label**` and its label.
IsHeader(line) ==
    /\ Len(line) >= 2 * Len(BoldMarker)
    /\ HasPrefix(line, BoldMarker)
    /\ SubSeq(line, Len(line) - Len(BoldMarker) + 1, Len(line)) = BoldMarker
LabelOf(line) == SubSeq(line, Len(BoldMarker) + 1, Len(line) - Len(BoldMarker))

\* The lines of a section, each with the header line it stands under (the
\* last header line before it; the empty string when there is none).
UnderHeaders(section) ==
    [i \in DOMAIN section |->
       LET before == {j \in 1..i : IsHeader(section[j])}
       IN [line |-> section[i],
           header |-> IF before = {} THEN <<>>
                      ELSE section[CHOOSE j \in before : \A k \in before : k <= j]]]

\* The bullet lines of a section, and those under the header of a label.
Bullets(section) ==
    SelectSeq(UnderHeaders(section), LAMBDA p : HasPrefix(p.line, BulletPrefix))
BulletsUnder(section, label) ==
    SelectSeq(Bullets(section),
              LAMBDA p : IsHeader(p.header) /\ LabelOf(p.header) = label)

\* The stories of a group, in the order of the list.
StoriesOfGroup(m, label) == SelectSeq(m.Stories, LAMBDA s : GroupOf(s) = label)

\* fmt.Sprintf("- %s [Category: %s]", description, label), the line of a
\* story without its "\n"
BulletText(description, label) ==
    BulletPrefix \o description \o <<" ">> \o CategoryOpen \o label \o <<"]">>

\* C34: the text WriteToFile writes holds one bullet line per story of the
\* MarkdownFile: under the header of each category stand the lines of the
\* stories of that category (of "Uncategorized" for an empty category) and
\* no other, in the order the stories have in the list.
C34_EveryStoryOnceUnderItsHeader ==
    Written
       => LET section == RecordSection(ctext, cdoc)
          IN /\ Len(Bullets(section)) = Len(cdoc.Stories)
             /\ \A label \in Groups(cdoc) \cup {LabelOf(h) : h \in {l \in {section[i] : i \in DOMAIN section} : IsHeader(l)}} :
                   LET under == BulletsUnder(section, label)
                       group == StoriesOfGroup(cdoc, label)
                   IN /\ Len(under) = Len(group)
                      /\ \A i \in DOMAIN under :
                            under[i].line
                               = BulletText(group[i].Description, group[i].Category)

\* a story without a category and a story of category "Uncategorized",
\* written after a summary as one group of two lines
C34_Witness ==
    /\ Written
    /\ Len(cdoc.Stories) = 2
    /\ cdoc.Summary # <<>>
    /\ cdoc.Stories[1].Category = <<>>
    /\ cdoc.Stories[2].Category = Uncategorized
    /\ cdoc.Stories[1].Description # cdoc.Stories[2].Description
    /\ Len(BulletsUnder(RecordSection(ctext, cdoc), Uncategorized)) = 2

\* C35: in the text WriteToFile writes, the label in the tag of every
\* bullet line is the label of the header the line stands under; a story
\* with an empty category stands under `**Uncategorized**` with the tag
\* `[Category: Uncategorized]`.
C35_TagLabelIsHeaderLabel ==
    Written
       => LET bullets == Bullets(RecordSection(ctext, cdoc))
          IN \A i \in DOMAIN bullets :
                /\ IsHeader(bullets[i].header)
                /\ \E description \in DocDescriptions :
                      bullets[i].line
                         = BulletText(description, LabelOf(bullets[i].header))

\* C36: every story ParseMarkdownFileContent returns has a category that is
\* not empty: a line without a tag, with a malformed tag or with the empty
\* tag `[Category: ]` gives the category "Uncategorized".
C36_ParsedCategoryNotEmpty ==
    Parsed => \A i \in DOMAIN cres.doc.Stories : cres.doc.Stories[i].Category # <<>>

\* ------------------------------------------- the lines of a parsed text
\* ParseMarkdownFileContent has returned for a text that was handed to it,
\* every line of which fits the scanner's buffer.
TextParsed ==
    /\ ParseReturned
    /\ ~FromDocument
    /\ \A i \in DOMAIN ScanLines(ctext) :
          ByteLen(ScanLines(ctext)[i]) < MaxScanTokenSize

\* Line i of a text is a delimiter line, a summary header line, a bullet line.
IsDelimiter(line) == TrimSpace(line) = Delimiter
IsSummaryHeader(line) == HasPrefix(TrimSpace(line), SummaryHeader)
IsBullet(line) == HasPrefix(TrimSpace(line), BulletPrefix)

\* C37: a `---` line opens a metadata block only at the beginning of the
\* text.  In a text that begins with a bullet line and has no summary
\* header, a later `---` line opens nothing: the parse returns a
\* MarkdownFile with one story for every bullet line of the text.
C37_DelimiterOnlyAtStart ==
    LET lines == ScanLines(ctext)
    IN (/\ TextParsed
        /\ lines # <<>>
        /\ IsBullet(lines[1])
        /\ \A i \in DOMAIN lines : ~IsSummaryHeader(lines[i]))
          => /\ cres.err = ""
             /\ Len(cres.doc.Stories)
                   = Cardinality({i \in DOMAIN lines : IsBullet(lines[i])})

\* C38: summary mode is entered at most once and only by a summary header
\* that is the first line after the optional metadata block.  In a text
\* that begins with a bullet line and has no `---` line, the lines after a
\* later `# Summary` line are not appended to the summary: the summary of
\* the MarkdownFile is empty.
C38_SummaryOnlyAfterMetadata ==
    LET lines == ScanLines(ctext)
    IN (/\ TextParsed
        /\ lines # <<>>
        /\ IsBullet(lines[1])
        /\ \A i \in DOMAIN lines : ~IsDelimiter(lines[i]))
          => /\ cres.err = ""
             /\ cres.doc.Summary = <<>>

\* The lines of a text after its metadata block: the block is there when
\* the first line is a delimiter line, and ends with the next one.
ContentLines(lines) ==
    IF lines # <<>> /\ IsDelimiter(lines[1])
    THEN LET closing == {j \in 2..Len(lines) : IsDelimiter(lines[j])}
         IN IF closing = {} THEN <<>>
            ELSE SubSeq(lines, (CHOOSE j \in closing : \A k \in closing : j <= k) + 1,
                        Len(lines))
    ELSE lines

\* C39: ParseMarkdownFileContent returns one story, in the order of the
\* text, for every line outside the metadata block and the summary that
\* starts with "- " once trimmed (the summary ends before a bullet line, so
\* these are the bullet lines after the metadata block), each with the
\* description and category of its own line; no other line gives a story
\* or changes one.
C39_OneStoryPerBulletLine ==
    (TextParsed /\ cres.err = "")
       => LET bullets == SelectSeq(ContentLines(ScanLines(ctext)), IsBullet)
              stories == cres.doc.Stories
          IN /\ Len(stories) = Len(bullets)
             /\ \A i \in DOMAIN stories :
                   /\ stories[i].Description
                         = StoryOfLine(TrimSpace(bullets[i])).Description
                   /\ stories[i].Category
                         = StoryOfLine(TrimSpace(bullets[i])).Category
====
